---- MODULE Spec2Model ----
(***************************************************************************)
(* A model of antrea-releaser's changelog generator                        *)
(* (pkg/changelog: ChangelogGenerator and formatChangelog; pkg/changelog/  *)
(* version: Version; cmd/prepare-changelog/main.go: the standalone tool).  *)
(*                                                                         *)
(* Text is a sequence of tokens.  A token is a string that the code treats *)
(* as a unit: a decimal digit, a separator such as "." or "\n", a fixed    *)
(* piece of a format string, or a word of free text.                       *)
(***************************************************************************)
EXTENDS Integers, Sequences, FiniteSets, TLC

VARIABLES
    pc,                   \* the position of the run
    ver,                  \* the parsed release version
    fromRelease,          \* the previous release, as text
    impl,                 \* which implementation computed fromRelease
    branch,               \* the branch the pull requests are listed from
    response,             \* the classifier's response: its Changes
    changesByCategory,    \* formatChangelog's buckets, after sorting
    changelogText,        \* the rendered document
    all,                  \* the --all flag: broad collection
    releaseStartTime,     \* the commit time of the previous release's tag
    listing,              \* the closed pull requests of the branch, in the
                          \* order ListPullRequests returns them
    allPRs,               \* fetchPRs: the records of all paths, before dedup
    prs,                  \* the collected records
    warned,               \* the PR numbers of the logged lookup warnings
    err,                  \* whether the stage returned an error
    cherryPickPRs,        \* what handleCherryPicks returned to fetchPRs
    changelogDir,         \* the CHANGELOG directory: file name -> what the
                          \* document of that name records, PR number ->
                          \* [Category, Description]
    prCache,              \* the ledger: PR number -> HistoricalPR
    historicalCHANGELOGs, \* the style excerpt
    fetchWarned,          \* the file names of the logged fetch warnings
    release,              \* the release the run was asked for, as text
    promptText            \* the prompt built for the classifier

versionVars == <<ver, fromRelease, impl, branch>>
formatVars == <<response, changesByCategory, changelogText>>
collectVars == <<all, releaseStartTime, listing, allPRs, prs, warned, err,
                 cherryPickPRs>>
ledgerVars == <<changelogDir, prCache, historicalCHANGELOGs, fetchWarned>>
generateVars == <<release, promptText>>
vars == <<pc, versionVars, formatVars, collectVars, ledgerVars, generateVars>>

(***************************************************************************)
(* Bounds of the model.                                                    *)
(***************************************************************************)
\* Largest value of a version component (10 gives two-digit components).
MaxComponent == 10
\* Most entries in a classifier response.
MaxChanges == 2
\* Most closed pull requests in the listing of a branch.
MaxPulls == 2
\* Pull requests per page of the listing (PerPage is 100 in the code).
PageSize == 2

(***************************************************************************)
(* Text helpers: fmt's %d, strconv.Atoi, strings.Split.                    *)
(***************************************************************************)
DigitChars == <<"0", "1", "2", "3", "4", "5", "6", "7", "8", "9">>

IsDigit(c) == \E i \in 1..10 : DigitChars[i] = c

DigitValue(c) == (CHOOSE i \in 1..10 : DigitChars[i] = c) - 1

\* fmt.Sprintf("%d", n) for n >= 0: the decimal digits, most significant first.
RECURSIVE Itoa(_)
Itoa(n) ==
    IF n < 10 THEN <<DigitChars[n + 1]>>
    ELSE Itoa(n \div 10) \o <<DigitChars[(n % 10) + 1]>>

\* strconv.Atoi on unsigned text: fails on the empty string and on any
\* token that is not a digit.
AtoiOk(s) == Len(s) > 0 /\ \A i \in 1..Len(s) : IsDigit(s[i])

RECURSIVE AtoiValue(_)
AtoiValue(s) ==
    IF Len(s) = 0 THEN 0
    ELSE 10 * AtoiValue(SubSeq(s, 1, Len(s) - 1)) + DigitValue(s[Len(s)])

\* strings.Split(s, sep) for a one-token separator: the pieces between the
\* separators; a text without separator is one piece.
RECURSIVE Split(_, _)
Split(s, sep) ==
    IF \A i \in 1..Len(s) : s[i] # sep THEN <<s>>
    ELSE LET k == CHOOSE i \in 1..Len(s) :
                      s[i] = sep /\ \A j \in 1..(i - 1) : s[j] # sep
         IN  <<SubSeq(s, 1, k - 1)>> \o Split(SubSeq(s, k + 1, Len(s)), sep)

(***************************************************************************)
(* Versions.                                                               *)
(***************************************************************************)
Version(major, minor, patch) == [major |-> major, minor |-> minor, patch |-> patch]

Versions ==
    {Version(a, b, c) : a \in 0..MaxComponent, b \in 0..MaxComponent,
                        c \in 0..MaxComponent}

\* fmt.Sprintf("%d.%d.%d", a, b, c)
SprintfVersion(a, b, c) == Itoa(a) \o <<".">> \o Itoa(b) \o <<".">> \o Itoa(c)

\* A faulty variant: the branch of the major line.
determineBranchOfMajor(v) ==
    IF v.patch = 0 THEN <<"main">>
    ELSE <<"release-">> \o Itoa(v.major) \o <<".">> \o Itoa(0)

\* determineBranch: "main" for patch 0, else
\* fmt.Sprintf("release-%d.%d", major, minor)
determineBranch(v) ==
    IF v.patch = 0 THEN <<"main">>
    ELSE <<"release-">> \o Itoa(v.major) \o <<".">> \o Itoa(v.minor)

\* Version.String
VersionString(v) == SprintfVersion(v.major, v.minor, v.patch)

\* parseVersion: exactly three dot-separated integers.
parseVersion(s) ==
    LET parts == Split(s, ".") IN
    IF Len(parts) # 3 THEN [ok |-> FALSE, v |-> Version(0, 0, 0)]
    ELSE IF ~(AtoiOk(parts[1]) /\ AtoiOk(parts[2]) /\ AtoiOk(parts[3]))
         THEN [ok |-> FALSE, v |-> Version(0, 0, 0)]
         ELSE [ok |-> TRUE,
               v |-> Version(AtoiValue(parts[1]), AtoiValue(parts[2]),
                             AtoiValue(parts[3]))]

\* A faulty variant: the first minor release of a major line does not map
\* to (major, 0, 0).
CalculatePreviousReleaseNoFloor(v) ==
    IF v.patch = 0
    THEN IF v.minor > 0 THEN SprintfVersion(v.major, v.minor - 1, 0)
         ELSE SprintfVersion(v.major, 0, 1)
    ELSE SprintfVersion(v.major, v.minor, v.patch - 1)

\* Version.CalculatePreviousRelease
CalculatePreviousRelease(v) ==
    IF v.patch = 0
    THEN IF v.minor > 0 THEN SprintfVersion(v.major, v.minor - 1, 0)
         ELSE SprintfVersion(v.major, 0, 0)
    ELSE SprintfVersion(v.major, v.minor, v.patch - 1)

\* calculateFromRelease of the standalone tool
calculateFromRelease(v) ==
    IF v.patch = 0
    THEN IF v.minor > 0 THEN SprintfVersion(v.major, v.minor - 1, 0)
         ELSE SprintfVersion(v.major, 0, 0)
    ELSE SprintfVersion(v.major, v.minor, v.patch - 1)

(***************************************************************************)
(* The classifier's response and formatChangelog.                          *)
(***************************************************************************)
\* The categories of the document, in output order.
categories == <<"ADDED", "CHANGED", "FIXED">>

\* strings.ToUpper on the category strings of the model.
ToUpper(c) ==
    CASE c \in {"ADDED", "Added", "added"} -> "ADDED"
      [] c \in {"CHANGED", "Changed", "changed"} -> "CHANGED"
      [] c \in {"FIXED", "Fixed", "fixed"} -> "FIXED"
      [] c = "Security" -> "SECURITY"
      [] OTHER -> c

\* strings.ToUpper(category[:1]) + strings.ToLower(category[1:])
CategoryTitle(c) ==
    CASE c = "ADDED" -> "Added"
      [] c = "CHANGED" -> "Changed"
      [] c = "FIXED" -> "Fixed"

\* The thresholds of the inclusion score.
ExcludeBelow == 25
OptionalBelow == 50

\* time.Now().Format("2006-01-02"), one token.
Today == "2025-11-04"

\* The permutations of 1..n.
IndexPermutations(n) ==
    {f \in [1..n -> 1..n] : \A i, j \in 1..n : f[i] = f[j] => i = j}

\* sort.Slice(s, less), with rank[i] the number of elements of s that are
\* less than s[i]: the sort is not stable, so every arrangement of s in
\* which no element is less than one before it is a possible outcome.
SortSliceOutcomes(s, rank) ==
    {[i \in 1..Len(s) |-> s[f[i]]] :
        f \in {g \in IndexPermutations(Len(s)) :
                  \A i, j \in 1..Len(s) : i < j => rank[g[i]] <= rank[g[j]]}}

\* A faulty variant: lower importance first.
ByImportanceAscending(a, b) == a.ImportanceScore < b.ImportanceScore

\* The less function of formatChangelog's sort: higher importance first.
ByImportance(a, b) == a.ImportanceScore > b.ImportanceScore

\* A faulty variant: entries below the exclusion threshold are kept.
KeptForCategoryNoThreshold(change, category) ==
    ToUpper(change.Category) = category

\* The first loop of formatChangelog: whether a change goes into the bucket
\* of category.
KeptForCategory(change, category) ==
    /\ ~(change.IncludeScore < ExcludeBelow)
    /\ ToUpper(change.Category) \in {"ADDED", "CHANGED", "FIXED"}
    /\ ToUpper(change.Category) = category

\* The rank of each element of a bucket under the less function of the sort.
ImportanceRanks(s) ==
    [i \in 1..Len(s) |->
        Cardinality({j \in 1..Len(s) : ByImportance(s[j], s[i])})]

\* The outcomes of sorting one bucket.
SortedBucket(s) == SortSliceOutcomes(s, ImportanceRanks(s))

\* changesByCategory[category] before sorting: the kept changes in the order
\* of the response.
GroupByCategory(changes, category) ==
    SelectSeq(changes, LAMBDA ch : KeptForCategory(ch, category))

\* The possible values of changesByCategory after the sort loop.
SortedBuckets(changes) ==
    {[c \in {"ADDED", "CHANGED", "FIXED"} |->
         CASE c = "ADDED" -> a [] c = "CHANGED" -> ch [] c = "FIXED" -> f] :
       a \in SortedBucket(GroupByCategory(changes, "ADDED")),
       ch \in SortedBucket(GroupByCategory(changes, "CHANGED")),
       f \in SortedBucket(GroupByCategory(changes, "FIXED"))}

\* A faulty variant: the optional marker is given up to and including 50.
OptionalPrefixInclusive(change) ==
    IF change.IncludeScore >= ExcludeBelow /\ change.IncludeScore <= OptionalBelow
    THEN <<"*OPTIONAL* ">> ELSE <<>>

\* The prefix of a bullet.
OptionalPrefix(change) ==
    IF change.IncludeScore >= ExcludeBelow /\ change.IncludeScore < OptionalBelow
    THEN <<"*OPTIONAL* ">> ELSE <<>>

\* A string argument of Sprintf: the empty string adds nothing.
Str(x) == IF x = "" THEN <<>> ELSE <<x>>

\* "- %s%s. ([#%d](https://github.com/antrea-io/antrea/pull/%d), [@%s])\n"
BulletLine(change) ==
    <<"- ">> \o OptionalPrefix(change) \o change.Description
        \o <<".", " ", "(", "[#">> \o Itoa(change.PRNumber)
        \o <<"](", "https://github.com/antrea-io/antrea/pull/">>
        \o Itoa(change.PRNumber) \o <<")", ", ", "[@">> \o Str(change.Author)
        \o <<"]", ")", "\n">>

RECURSIVE BulletLines(_)
BulletLines(changes) ==
    IF Len(changes) = 0 THEN <<>>
    ELSE BulletLine(Head(changes)) \o BulletLines(Tail(changes))

\* One category of the output loop: the heading, the bullets, an empty line.
CategorySection(category, changes) ==
    <<"### ", CategoryTitle(category), "\n", "\n">> \o BulletLines(changes)
        \o <<"\n">>

\* authorSet: the authors of the rendered bullets.
AuthorSet(buckets) ==
    UNION {{buckets[c][i].Author : i \in 1..Len(buckets[c])} :
              c \in {"ADDED", "CHANGED", "FIXED"}}

\* The byte order of the author handles of the model.
AuthorOrder == <<"", "alice", "bob", "dependabot", "renovate[bot]">>

AuthorRank(a) == CHOOSE i \in 1..Len(AuthorOrder) : AuthorOrder[i] = a

\* A faulty variant: the link definitions are written last author first.
RECURSIVE AuthorLinksDescending(_)
AuthorLinksDescending(authors) ==
    IF authors = {} THEN <<>>
    ELSE LET a == CHOOSE x \in authors :
                      \A y \in authors : AuthorRank(x) >= AuthorRank(y)
         IN  <<"[@">> \o Str(a) \o <<"]: ", "https://github.com/">> \o Str(a)
                 \o <<"\n">> \o AuthorLinksDescending(authors \ {a})

\* sort.Strings(authors) followed by the loop writing the link definitions.
RECURSIVE AuthorLinks(_)
AuthorLinks(authors) ==
    IF authors = {} THEN <<>>
    ELSE LET a == CHOOSE x \in authors :
                      \A y \in authors : AuthorRank(x) <= AuthorRank(y)
         IN  <<"[@">> \o Str(a) \o <<"]: ", "https://github.com/">> \o Str(a)
                 \o <<"\n">> \o AuthorLinks(authors \ {a})

\* A faulty variant: the title is written for every release.
TitleLineAlways(v) ==
    <<"# Changelog ">> \o Itoa(v.major) \o <<".">> \o Itoa(v.minor)
        \o <<"\n", "\n">>

\* The title of formatChangelog, for minor releases only.
TitleLine(v) ==
    IF v.patch = 0
    THEN <<"# Changelog ">> \o Itoa(v.major) \o <<".">> \o Itoa(v.minor)
             \o <<"\n", "\n">>
    ELSE <<>>

\* formatChangelog, given the outcome of its sort loop.
formatChangelog(v, buckets) ==
    TitleLine(v)
    \o <<"## ">> \o SprintfVersion(v.major, v.minor, v.patch)
    \o <<" - ", Today, "\n", "\n">>
    \o CategorySection(categories[1], buckets[categories[1]])
    \o CategorySection(categories[2], buckets[categories[2]])
    \o CategorySection(categories[3], buckets[categories[3]])
    \o <<"\n">>
    \o AuthorLinks(AuthorSet(buckets))

(***************************************************************************)
(* Collection: fetchPRs, its three traversals, filterBotPRs.               *)
(***************************************************************************)
\* A pull request as the GitHub client returns it.  merged is
\* MergedAt != nil; mergedAt is meaningful only when merged.
Pull(number, title, author, labels, body, merged, mergedAt) ==
    [number |-> number, title |-> title, author |-> author, labels |-> labels,
     body |-> body, merged |-> merged, mergedAt |-> mergedAt]

\* types.PRInfo built from a pull request, with the given merge time.
PRInfo(pull, mergedAt) ==
    [Number |-> pull.number, Title |-> pull.title, Body |-> pull.body,
     Author |-> pull.author, Labels |-> pull.labels, MergedAt |-> mergedAt]

\* Whether a label list holds the label.
HasLabel(labels, label) == \E i \in 1..Len(labels) : labels[i] = label

\* The pages ListPullRequests returns for the listing: an empty listing is
\* one empty page, and the last page has NextPage = 0.
Pages(pulls) ==
    IF Len(pulls) = 0 THEN << <<>> >>
    ELSE [k \in 1..((Len(pulls) + PageSize - 1) \div PageSize) |->
             SubSeq(pulls, (k - 1) * PageSize + 1,
                    IF k * PageSize < Len(pulls) THEN k * PageSize ELSE Len(pulls))]

\* The loop of fetchPRsWithLabel over the pulls of one page.  done: the
\* function returned from inside the loop.
RECURSIVE LabelPage(_, _, _, _)
LabelPage(pulls, since, label, acc) ==
    IF Len(pulls) = 0 THEN [done |-> FALSE, prs |-> acc]
    ELSE LET pull == Head(pulls) IN
         IF ~pull.merged THEN LabelPage(Tail(pulls), since, label, acc)
         ELSE IF pull.mergedAt < since THEN [done |-> TRUE, prs |-> acc]
         ELSE IF ~HasLabel(pull.labels, label)
              THEN LabelPage(Tail(pulls), since, label, acc)
              ELSE LabelPage(Tail(pulls), since, label,
                             Append(acc, PRInfo(pull, pull.mergedAt)))

\* A faulty variant: a record merged before since ends the page, and the
\* next page is requested.
RECURSIVE LabelLoopNextPage(_, _, _, _, _, _)
LabelLoopNextPage(pages, k, since, label, failAt, acc) ==
    IF failAt = k THEN [err |-> TRUE, prs |-> <<>>]
    ELSE LET r == LabelPage(pages[k], since, label, acc) IN
         IF k = Len(pages) THEN [err |-> FALSE, prs |-> r.prs]
         ELSE LabelLoopNextPage(pages, k + 1, since, label, failAt, r.prs)

\* fetchPRsWithLabel from page k on; the call for page failAt fails.
RECURSIVE LabelLoop(_, _, _, _, _, _)
LabelLoop(pages, k, since, label, failAt, acc) ==
    IF failAt = k THEN [err |-> TRUE, prs |-> <<>>]
    ELSE LET r == LabelPage(pages[k], since, label, acc) IN
         IF r.done \/ k = Len(pages) THEN [err |-> FALSE, prs |-> r.prs]
         ELSE LabelLoop(pages, k + 1, since, label, failAt, r.prs)

fetchPRsWithLabel(pulls, since, label, failAt) ==
    LabelLoop(Pages(pulls), 1, since, label, failAt, <<>>)

\* A faulty variant: the cherry picks are collected as well.
RECURSIVE AllPageWithCherryPicks(_, _, _)
AllPageWithCherryPicks(pulls, since, acc) ==
    IF Len(pulls) = 0 THEN [done |-> FALSE, prs |-> acc]
    ELSE LET pull == Head(pulls) IN
         IF ~pull.merged THEN AllPageWithCherryPicks(Tail(pulls), since, acc)
         ELSE IF pull.mergedAt < since THEN [done |-> TRUE, prs |-> acc]
         ELSE AllPageWithCherryPicks(Tail(pulls), since,
                                     Append(acc, PRInfo(pull, pull.mergedAt)))

\* The loop of fetchAllPRs over the pulls of one page.
RECURSIVE AllPage(_, _, _)
AllPage(pulls, since, acc) ==
    IF Len(pulls) = 0 THEN [done |-> FALSE, prs |-> acc]
    ELSE LET pull == Head(pulls) IN
         IF ~pull.merged THEN AllPage(Tail(pulls), since, acc)
         ELSE IF pull.mergedAt < since THEN [done |-> TRUE, prs |-> acc]
         ELSE IF HasLabel(pull.labels, "kind/cherry-pick")
              THEN AllPage(Tail(pulls), since, acc)
              ELSE AllPage(Tail(pulls), since,
                           Append(acc, PRInfo(pull, pull.mergedAt)))

RECURSIVE AllLoop(_, _, _, _, _)
AllLoop(pages, k, since, failAt, acc) ==
    IF failAt = k THEN [err |-> TRUE, prs |-> <<>>]
    ELSE LET r == AllPage(pages[k], since, acc) IN
         IF r.done \/ k = Len(pages) THEN [err |-> FALSE, prs |-> r.prs]
         ELSE AllLoop(pages, k + 1, since, failAt, r.prs)

fetchAllPRs(pulls, since, failAt) == AllLoop(Pages(pulls), 1, since, failAt, <<>>)

\* cherryPickRegex.FindAllStringSubmatch(body, -1) followed by Atoi: the
\* numbers written as "#" and digits, in the order of the body.
RECURSIVE FindAllRefs(_)
FindAllRefs(body) ==
    IF Len(body) < 2 THEN <<>>
    ELSE IF body[1] = "#" /\ IsDigit(body[2])
         THEN LET e == CHOOSE i \in 2..Len(body) :
                           /\ \A j \in 2..i : IsDigit(body[j])
                           /\ (i = Len(body) \/ ~IsDigit(body[i + 1]))
              IN  <<AtoiValue(SubSeq(body, 2, e))>>
                      \o FindAllRefs(SubSeq(body, e + 1, Len(body)))
         ELSE FindAllRefs(Tail(body))

\* The authors and titles of the pull requests of the repository.
AuthorOf(n) ==
    CASE n = 1 -> "alice" [] n = 2 -> "dependabot[bot]" [] OTHER -> "bob"

TitleOf(n) == <<"Title", " ">> \o Itoa(n)

\* GetPullRequest(n) when it succeeds: the pull request of that number, as
\* listed if it is in the listing of the branch, else one merged on another
\* branch before the window.
GetPullRequest(pulls, n) ==
    IF \E i \in 1..Len(pulls) : pulls[i].number = n
    THEN pulls[CHOOSE i \in 1..Len(pulls) :
                   pulls[i].number = n /\ \A j \in 1..(i - 1) : pulls[j].number # n]
    ELSE Pull(n, TitleOf(n), AuthorOf(n), <<>>, <<>>, TRUE, 1)

\* The loop of handleCherryPicks over the matches of one body: the lookups
\* of the numbers in getFail fail, are logged and skipped.
RECURSIVE ResolveRefs(_, _, _, _, _, _)
ResolveRefs(pulls, pull, refs, getFail, acc, warn) ==
    IF Len(refs) = 0 THEN [prs |-> acc, warned |-> warn]
    ELSE IF Head(refs) \in getFail
         THEN ResolveRefs(pulls, pull, Tail(refs), getFail, acc,
                          warn \cup {Head(refs)})
         ELSE ResolveRefs(pulls, pull, Tail(refs), getFail,
                          Append(acc, PRInfo(GetPullRequest(pulls, Head(refs)),
                                             pull.mergedAt)),
                          warn)

\* The loop of handleCherryPicks over the pulls of one page.
RECURSIVE CherryPage(_, _, _, _, _, _)
CherryPage(pulls, page, since, getFail, acc, warn) ==
    IF Len(page) = 0 THEN [done |-> FALSE, prs |-> acc, warned |-> warn]
    ELSE LET pull == Head(page) IN
         IF ~pull.merged THEN CherryPage(pulls, Tail(page), since, getFail, acc, warn)
         ELSE IF pull.mergedAt < since
              THEN [done |-> TRUE, prs |-> acc, warned |-> warn]
         ELSE IF ~HasLabel(pull.labels, "kind/cherry-pick")
              THEN CherryPage(pulls, Tail(page), since, getFail, acc, warn)
              ELSE LET r == ResolveRefs(pulls, pull, FindAllRefs(pull.body),
                                        getFail, acc, warn)
                   IN  CherryPage(pulls, Tail(page), since, getFail, r.prs, r.warned)

RECURSIVE CherryLoop(_, _, _, _, _, _, _, _)
CherryLoop(pulls, pages, k, since, failAt, getFail, acc, warn) ==
    IF failAt = k THEN [err |-> TRUE, prs |-> <<>>, warned |-> warn]
    ELSE LET r == CherryPage(pulls, pages[k], since, getFail, acc, warn) IN
         IF r.done \/ k = Len(pages)
         THEN [err |-> FALSE, prs |-> r.prs, warned |-> r.warned]
         ELSE CherryLoop(pulls, pages, k + 1, since, failAt, getFail,
                         r.prs, r.warned)

handleCherryPicks(pulls, since, failAt, getFail) ==
    CherryLoop(pulls, Pages(pulls), 1, since, failAt, getFail, <<>>, {})

\* A faulty variant: no deduplication.
DeduplicateNothing(records) == records

\* The deduplication of fetchPRs: the first record of each number, in the
\* order of first occurrence.
Deduplicate(records) ==
    LET RECURSIVE Keep(_)
        Keep(i) ==
            IF i > Len(records) THEN <<>>
            ELSE IF \E j \in 1..(i - 1) : records[j].Number = records[i].Number
                 THEN Keep(i + 1)
                 ELSE <<records[i]>> \o Keep(i + 1)
    IN  Keep(1)

\* A faulty variant: later merge time first.
MergedLater(a, b) == a.MergedAt > b.MergedAt

\* The less function of the sort of fetchPRs: MergedAt.Before.
MergedBefore(a, b) == a.MergedAt < b.MergedAt

MergeTimeRanks(s) ==
    [i \in 1..Len(s) |->
        Cardinality({j \in 1..Len(s) : MergedBefore(s[j], s[i])})]

\* The values fetchPRs may return for the records of its paths: the records
\* of the map, which Go ranges over in no fixed order, sorted by merge time.
UniqueSorted(records) ==
    SortSliceOutcomes(Deduplicate(records), MergeTimeRanks(Deduplicate(records)))

\* A faulty variant: the cherry-pick traversal is made for every release.
CollectAllWithCherryPicks(broad, v, pulls, start, tagFail, failList, failCherry, getFail) ==
    IF tagFail THEN [err |-> TRUE, prs |-> <<>>, warned |-> {}, cherry |-> <<>>]
    ELSE LET first == IF broad THEN fetchAllPRs(pulls, start, failList)
                      ELSE fetchPRsWithLabel(pulls, start, "action/release-note",
                                             failList)
             cp == handleCherryPicks(pulls, start, failCherry, getFail)
         IN  IF first.err
             THEN [err |-> TRUE, prs |-> <<>>, warned |-> {}, cherry |-> <<>>]
             ELSE IF cp.err
                  THEN [err |-> TRUE, prs |-> <<>>, warned |-> cp.warned,
                        cherry |-> <<>>]
                  ELSE [err |-> FALSE, prs |-> first.prs \o cp.prs,
                        warned |-> cp.warned, cherry |-> cp.prs]

\* fetchPRs up to the deduplication: the first traversal, then for a patch
\* release the cherry-pick traversal.  tagFail: getReleaseStartTime fails;
\* failList, failCherry: the page whose request fails in each traversal
\* (0: none); getFail: the numbers whose lookup fails.
CollectAll(broad, v, pulls, start, tagFail, failList, failCherry, getFail) ==
    IF tagFail THEN [err |-> TRUE, prs |-> <<>>, warned |-> {}, cherry |-> <<>>]
    ELSE LET first == IF broad THEN fetchAllPRs(pulls, start, failList)
                      ELSE fetchPRsWithLabel(pulls, start, "action/release-note",
                                             failList)
         IN  IF first.err
             THEN [err |-> TRUE, prs |-> <<>>, warned |-> {}, cherry |-> <<>>]
             ELSE IF v.patch # 0
                  THEN LET cp == handleCherryPicks(pulls, start, failCherry, getFail)
                       IN  IF cp.err
                           THEN [err |-> TRUE, prs |-> <<>>, warned |-> cp.warned,
                                 cherry |-> <<>>]
                           ELSE [err |-> FALSE, prs |-> first.prs \o cp.prs,
                                 warned |-> cp.warned, cherry |-> cp.prs]
                  ELSE [err |-> FALSE, prs |-> first.prs, warned |-> {},
                        cherry |-> <<>>]

ignoredAuthors == {"renovate[bot]", "dependabot", "dependabot[bot]", "antrea-bot"}

\* A faulty variant: the block-list misses an identity.
filterBotPRsShortList(records) ==
    SelectSeq(records, LAMBDA pr : pr.Author \notin {"renovate[bot]", "dependabot", "antrea-bot"})

\* filterBotPRs
filterBotPRs(records) ==
    SelectSeq(records, LAMBDA pr : pr.Author \notin ignoredAuthors)

(***************************************************************************)
(* The ledger: fetchHistoricalCHANGELOGs and parseCHANGELOG.               *)
(***************************************************************************)
WhiteSpace == {" ", "\t", "\r"}

RECURSIVE TrimLeft(_)
TrimLeft(s) ==
    IF Len(s) > 0 /\ Head(s) \in WhiteSpace THEN TrimLeft(Tail(s)) ELSE s

RECURSIVE TrimRight(_)
TrimRight(s) ==
    IF Len(s) > 0 /\ s[Len(s)] \in WhiteSpace
    THEN TrimRight(SubSeq(s, 1, Len(s) - 1)) ELSE s

\* strings.TrimSpace
TrimSpace(s) == TrimRight(TrimLeft(s))

\* strings.HasPrefix, strings.TrimPrefix, strings.TrimSuffix for a
\* one-token prefix or suffix.
HasPrefix(s, t) == Len(s) > 0 /\ s[1] = t
TrimPrefix(s, t) == IF HasPrefix(s, t) THEN Tail(s) ELSE s
HasSuffix(s, t) == Len(s) > 0 /\ s[Len(s)] = t
TrimSuffix(s, t) == IF HasSuffix(s, t) THEN SubSeq(s, 1, Len(s) - 1) ELSE s

\* The end of the run of digits that starts at i (i - 1 if there is none).
DigitsEnd(s, i) ==
    CHOOSE e \in (i - 1)..Len(s) :
        /\ \A j \in i..e : IsDigit(s[j])
        /\ (e = Len(s) \/ ~IsDigit(s[e + 1]))

\* Whether prRegex matches at token i:
\* \[#(\d+)\]\(https://github\.com/antrea-io/antrea/pull/\d+\)
MatchesAt(s, i) ==
    /\ s[i] = "[#"
    /\ LET e == DigitsEnd(s, i + 1) IN
       /\ e >= i + 1
       /\ e + 2 <= Len(s)
       /\ s[e + 1] = "]("
       /\ s[e + 2] = "https://github.com/antrea-io/antrea/pull/"
       /\ LET f == DigitsEnd(s, e + 3) IN
          /\ f >= e + 3
          /\ f + 1 <= Len(s)
          /\ s[f + 1] = ")"

\* prRegex.FindAllStringSubmatch(line, -1): the places of the matches.
Matches(s) == {i \in 1..Len(s) : MatchesAt(s, i)}

\* matches[0][1] through strconv.Atoi: the number of the first match.
FirstMatchNumber(s) ==
    LET i == CHOOSE x \in Matches(s) : \A y \in Matches(s) : x <= y
    IN  AtoiValue(SubSeq(s, i + 1, DigitsEnd(s, i + 1)))

\* strings.Index(line, "([#"): the token where it starts, 0 if nowhere
\* (the code's -1) .
IndexParenLink(s) ==
    LET hits == {i \in 1..(Len(s) - 1) : s[i] = "(" /\ s[i + 1] = "[#"}
    IN  IF hits = {} THEN 0 ELSE CHOOSE x \in hits : \A y \in hits : x <= y

\* line[2:descEnd]: the line from its third character up to the token
\* before descEnd.  The line is one whose trimmed form starts with "- ",
\* so it starts with "- " or with white space.
DescriptionSlice(s, descEnd) ==
    IF s[1] = "- " THEN SubSeq(s, 2, descEnd - 1)
    ELSE IF s[2] = "- " THEN <<" ">> \o SubSeq(s, 3, descEnd - 1)
    ELSE SubSeq(s, 3, descEnd - 1)

HistoricalPR(description, category) ==
    [Description |-> description, Category |-> category]

\* The body of parseCHANGELOG's loop for one line: st holds currentCategory
\* and prCache.
ParseLine(st, line) ==
    LET trimmed == TrimSpace(line) IN
    IF HasPrefix(trimmed, "### ")
    THEN LET rest == TrimSpace(TrimPrefix(trimmed, "### "))
             category == IF Len(rest) = 1 THEN ToUpper(rest[1]) ELSE ""
         IN  IF category \in {"ADDED", "CHANGED", "FIXED"}
             THEN [st EXCEPT !.currentCategory = category]
             ELSE st
    ELSE IF HasPrefix(trimmed, "- ") /\ st.currentCategory # ""
         THEN IF Matches(line) # {}
              THEN LET prNum == FirstMatchNumber(line)
                       descEnd == IndexParenLink(line)
                   IN  IF descEnd > 1
                       THEN LET description ==
                                    TrimSuffix(
                                        TrimPrefix(
                                            TrimSpace(DescriptionSlice(line, descEnd)),
                                            "*OPTIONAL* "),
                                        ".")
                            IN  IF prNum \in DOMAIN st.prCache THEN st
                                ELSE [st EXCEPT !.prCache =
                                         st.prCache @@
                                         (prNum :> HistoricalPR(description,
                                                                st.currentCategory))]
                       ELSE st
              ELSE st
         ELSE st

RECURSIVE ParseLines(_, _)
ParseLines(st, lines) ==
    IF Len(lines) = 0 THEN st
    ELSE ParseLines(ParseLine(st, Head(lines)), Tail(lines))

\* parseCHANGELOG(content, prCache): the ledger after the call.
parseCHANGELOG(content, cache) ==
    ParseLines([currentCategory |-> "", prCache |-> cache],
               Split(content, "\n")).prCache

\* Version.GreaterThan
GreaterThan(v, other) ==
    IF v.major # other.major THEN v.major > other.major
    ELSE IF v.minor # other.minor THEN v.minor > other.minor
    ELSE v.patch > other.patch

\* version.Parse for the texts of the model: three dot-separated numbers.
Parse(versionStr) == parseVersion(versionStr)

\* The version text of a file name: the name without "CHANGELOG-" and
\* ".md", followed by ".0".
NameVersion(name) ==
    Parse(TrimSuffix(TrimPrefix(name, "CHANGELOG-"), ".md") \o <<".", "0">>)

\* The first loop of fetchHistoricalCHANGELOGs: the directory entries named
\* CHANGELOG-X.Y.md, each with its version, in directory order.
RECURSIVE FindChangelogFiles(_)
FindChangelogFiles(dirContent) ==
    IF Len(dirContent) = 0 THEN <<>>
    ELSE LET file == Head(dirContent)
             rest == FindChangelogFiles(Tail(dirContent))
         IN  IF ~HasPrefix(file.name, "CHANGELOG-") \/ ~HasSuffix(file.name, ".md")
             THEN rest
             ELSE IF ~NameVersion(file.name).ok THEN rest
             ELSE <<[name |-> file.name, version |-> NameVersion(file.name).v,
                     content |-> file.content]>> \o rest

VersionRanks(s) ==
    [i \in 1..Len(s) |->
        Cardinality({j \in 1..Len(s) : GreaterThan(s[j].version, s[i].version)})]

\* sort.Slice(changelogFiles, GreaterThan): the possible orders.
SortedChangelogFiles(dirContent) ==
    SortSliceOutcomes(FindChangelogFiles(dirContent),
                      VersionRanks(FindChangelogFiles(dirContent)))

\* The loop that parses all files into prCache.  failed is the set of
\* places in changelogFiles whose GetFileContent request fails: the loop
\* logs a warning and goes on to the next file.
RECURSIVE ParseAllLoop(_, _, _, _)
ParseAllLoop(changelogFiles, i, failed, st) ==
    IF i > Len(changelogFiles) THEN st
    ELSE IF i \in failed
         THEN ParseAllLoop(changelogFiles, i + 1, failed,
                  [st EXCEPT !.warned = st.warned \cup {changelogFiles[i].name}])
         ELSE ParseAllLoop(changelogFiles, i + 1, failed,
                  [st EXCEPT !.prCache =
                      parseCHANGELOG(changelogFiles[i].content, st.prCache)])

NumToInclude == 3

\* min(3, len(changelogFiles))
Min(a, b) == IF a < b THEN a ELSE b

\* The loop that writes the most recent files into historicalContent.
\* failAt is the place whose second GetFileContent request fails (0: none);
\* the loop returns the error.
RECURSIVE IncludeLoop(_, _, _, _)
IncludeLoop(changelogFiles, i, failAt, text) ==
    IF i > Min(NumToInclude, Len(changelogFiles))
    THEN [err |-> FALSE, text |-> text]
    ELSE IF i = failAt THEN [err |-> TRUE, text |-> <<>>]
    ELSE IncludeLoop(changelogFiles, i + 1, failAt,
             text \o <<"\n", "\n", "=== ">> \o changelogFiles[i].name
                  \o <<" ===", "\n", "\n">> \o changelogFiles[i].content)

\* fetchHistoricalCHANGELOGs after the sort: the returned text, ledger and
\* error, and the warnings logged.
fetchHistoricalCHANGELOGs(changelogFiles, failed, failAt) ==
    LET parsed == ParseAllLoop(changelogFiles, 1, failed,
                               [prCache |-> <<>>, warned |-> {}])
        included == IncludeLoop(changelogFiles, 1, failAt, <<>>)
    IN  [err |-> included.err,
         text |-> included.text,
         prCache |-> IF included.err THEN <<>> ELSE parsed.prCache,
         warned |-> parsed.warned]

(***************************************************************************)
(* Generate: buildPrompt, enrichWithAuthors and the test after each stage. *)
(***************************************************************************)
\* strings.Join(labels, ", ")
RECURSIVE Join(_)
Join(labels) ==
    IF Len(labels) = 0 THEN <<>>
    ELSE IF Len(labels) = 1 THEN <<labels[1]>>
    ELSE <<labels[1], ", ">> \o Join(Tail(labels))

\* A faulty variant: the historical entry is written with the category
\* FIXED whatever the ledger holds.
HistoricalEntryFixed(pr, cache) ==
    IF pr.Number \in DOMAIN cache
    THEN <<"**HISTORICAL ENTRY (MUST REUSE):**", "\n",
           "- Category: ", "FIXED", "\n",
           "- Description: ">> \o cache[pr.Number].Description \o <<"\n">>
    ELSE <<>>

\* The lines buildPrompt writes for a record whose number is in prCache.
HistoricalEntry(pr, cache) ==
    IF pr.Number \in DOMAIN cache
    THEN <<"**HISTORICAL ENTRY (MUST REUSE):**", "\n",
           "- Category: ", cache[pr.Number].Category, "\n",
           "- Description: ">> \o cache[pr.Number].Description \o <<"\n">>
    ELSE <<>>

\* The block buildPrompt writes for one record.
PromptBlock(pr, cache) ==
    <<"## PR #">> \o Itoa(pr.Number) \o <<"\n">>
    \o <<"**Title:** ">> \o pr.Title \o <<"\n">>
    \o <<"**Author:** ">> \o Str(pr.Author) \o <<"\n">>
    \o <<"**Labels:** ">> \o Join(pr.Labels) \o <<"\n">>
    \o HistoricalEntry(pr, cache)
    \o <<"**Body:**", "\n">> \o pr.Body \o <<"\n">>
    \o <<"\n", "---", "\n", "\n">>

RECURSIVE PromptBlocks(_, _)
PromptBlocks(records, cache) ==
    IF Len(records) = 0 THEN <<>>
    ELSE PromptBlock(Head(records), cache) \o PromptBlocks(Tail(records), cache)

buildPrompt(historical, records, cache) ==
    <<"prompt.Template", "\n", "\n",
      "# HISTORICAL CHANGELOGS (for reference and consistency)", "\n", "\n">>
    \o historical \o <<"\n", "\n">>
    \o <<"# PULL REQUESTS FOR THIS RELEASE", "\n", "\n">>
    \o PromptBlocks(records, cache)

\* A faulty variant: the author of the first record, whatever its number.
AuthorForFirstRecord(change, records) ==
    IF Len(records) > 0 THEN records[1].Author ELSE change.Author

\* The inner loop of enrichWithAuthors: the author of the first record with
\* the number of the change, or the author the change has.
AuthorFor(change, records) ==
    IF \E i \in 1..Len(records) : records[i].Number = change.PRNumber
    THEN records[CHOOSE i \in 1..Len(records) :
                    /\ records[i].Number = change.PRNumber
                    /\ \A j \in 1..(i - 1) :
                          records[j].Number # change.PRNumber].Author
    ELSE change.Author

enrichWithAuthors(changes, records) ==
    [i \in 1..Len(changes) |->
        [changes[i] EXCEPT !.Author = AuthorFor(changes[i], records)]]

\* A faulty variant: a stage that failed sends the run back to its start.
StageOutcomeRestart(stageErr, next) == IF stageErr THEN "start" ELSE next

\* A faulty variant: the error of a stage is not looked at.
StageOutcomeIgnoreError(stageErr, next) == next

\* Generate's test after each stage, "if err != nil { return "", ... }":
\* where the run goes after a stage that was to lead to next.
StageOutcome(stageErr, next) == IF stageErr THEN "failed" ELSE next

(***************************************************************************)
(* SpecVersion: the version functions applied to every version in bounds.  *)
(***************************************************************************)
InitVersion ==
    /\ pc = "parsed"
    /\ ver \in Versions
    /\ fromRelease = <<>>
    /\ impl = "none"
    /\ branch = <<>>
    /\ response = <<>>
    /\ changesByCategory = <<>>
    /\ changelogText = <<>>
    /\ all = FALSE
    /\ releaseStartTime = 0
    /\ listing = <<>>
    /\ allPRs = <<>>
    /\ prs = <<>>
    /\ warned = {}
    /\ err = FALSE
    /\ cherryPickPRs = <<>>
    /\ release = <<>>
    /\ promptText = <<>>
    /\ changelogDir = <<>>
    /\ prCache = <<>>
    /\ historicalCHANGELOGs = <<>>
    /\ fetchWarned = {}

\* Generate, lines 70-74: fromRelease = ver.CalculatePreviousRelease()
GenerateCalculatePrevious ==
    /\ pc = "parsed"
    /\ fromRelease' = CalculatePreviousRelease(ver)
    /\ impl' = "pkg"
    /\ pc' = "previous"
    /\ UNCHANGED <<ver, branch, formatVars, collectVars, ledgerVars, generateVars>>

\* run, lines 120-123: config.FromRelease = calculateFromRelease(version)
RunCalculateFromRelease ==
    /\ pc = "parsed"
    /\ fromRelease' = calculateFromRelease(ver)
    /\ impl' = "cmd"
    /\ pc' = "previous"
    /\ UNCHANGED <<ver, branch, formatVars, collectVars, ledgerVars, generateVars>>

\* Generate, line 77, and run, line 126: branch := determineBranch(ver)
DetermineBranch ==
    /\ pc = "previous"
    /\ branch' = determineBranch(ver)
    /\ pc' = "branched"
    /\ UNCHANGED <<ver, fromRelease, impl, formatVars, collectVars, ledgerVars,
                   generateVars>>

NextVersion ==
    GenerateCalculatePrevious \/ RunCalculateFromRelease \/ DetermineBranch

SpecVersion == InitVersion /\ [][NextVersion]_vars

\* C1: the previous release of (major, minor, patch) is (major, minor,
\* patch-1) when patch > 0, (major, minor-1, 0) when patch = 0 and
\* minor > 0, and (major, 0, 0) when patch = 0 and minor = 0; the result
\* is always a well-formed version, never an error.
C1_PreviousRelease ==
    pc = "previous" =>
        LET p == parseVersion(fromRelease) IN
        /\ p.ok
        /\ ver.patch > 0 => p.v = Version(ver.major, ver.minor, ver.patch - 1)
        /\ (ver.patch = 0 /\ ver.minor > 0) =>
               p.v = Version(ver.major, ver.minor - 1, 0)
        /\ (ver.patch = 0 /\ ver.minor = 0) => p.v = Version(ver.major, 0, 0)

\* The boundary case has happened: the first release of a major line.
C1_Witness ==
    /\ pc = "previous"
    /\ impl = "pkg"
    /\ ver.patch = 0 /\ ver.minor = 0 /\ ver.major = 10
    /\ fromRelease = <<"1", "0", ".", "0", ".", "0">>
(***************************************************************************)
(* SpecFormat: formatChangelog applied to every response in bounds.        *)
(***************************************************************************)
\* The PR numbers, category strings and scores a response is drawn from.
ResponseNumbers == {7, 12}
ResponseCategories == {"ADDED", "fixed", "Security"}
IncludeScores == {24, 25, 49, 50}
ImportanceScores == {10, 20}

\* The author enrichment gave an entry: the author of the collected record
\* with its number, none for a number that was not collected.
EnrichedAuthor(n) ==
    CASE n = 7 -> "alice" [] OTHER -> ""

ChangeEntries ==
    {[PRNumber |-> n, Category |-> c, Description |-> <<"Fix", " ", "crash">>,
      IncludeScore |-> s, ImportanceScore |-> m, ReusedFromHistory |-> FALSE,
      Author |-> EnrichedAuthor(n)] :
        n \in ResponseNumbers, c \in ResponseCategories,
        s \in IncludeScores, m \in ImportanceScores}

Responses == UNION {[1..n -> ChangeEntries] : n \in 0..MaxChanges}

ReleaseVersions == {Version(2, 5, 0), Version(2, 5, 1)}

InitFormat ==
    /\ pc = "classified"
    /\ ver \in ReleaseVersions
    /\ response \in Responses
    /\ changesByCategory = <<>>
    /\ changelogText = <<>>
    /\ fromRelease = <<>>
    /\ impl = "none"
    /\ branch = <<>>
    /\ all = FALSE
    /\ releaseStartTime = 0
    /\ listing = <<>>
    /\ allPRs = <<>>
    /\ prs = <<>>
    /\ warned = {}
    /\ err = FALSE
    /\ cherryPickPRs = <<>>
    /\ release = <<>>
    /\ promptText = <<>>
    /\ changelogDir = <<>>
    /\ prCache = <<>>
    /\ historicalCHANGELOGs = <<>>
    /\ fetchWarned = {}

\* A faulty variant: the entries are filtered and sorted in the array of
\* response.Changes.
ChangesAfterFormatInPlace(changes, buckets) ==
    buckets["ADDED"] \o buckets["CHANGED"] \o buckets["FIXED"]

\* response.Changes after formatChangelog: the loop variable of the range
\* is a copy of the entry, append puts it into a new array of the map, and
\* sort.Slice swaps the elements of that array.
ChangesAfterFormat(changes, buckets) == changes

\* Generate, line 124: changelogText := formatChangelog(ver, modelResponse)
FormatChangelog ==
    /\ pc = "classified"
    /\ \E buckets \in SortedBuckets(response) :
           /\ changesByCategory' = buckets
           /\ changelogText' = formatChangelog(ver, buckets)
           /\ response' = ChangesAfterFormat(response, buckets)
    /\ pc' = "formatted"
    /\ UNCHANGED <<versionVars, collectVars, ledgerVars, generateVars>>

NextFormat == FormatChangelog

SpecFormat == InitFormat /\ [][NextFormat]_vars

(***************************************************************************)
(* Reading a rendered document back: its lines, bullets and sections.      *)
(***************************************************************************)
TextLines(text) == Split(text, "\n")

IsBullet(line) == Len(line) > 0 /\ line[1] = "- "

IsHeading(line) == Len(line) > 0 /\ line[1] = "### "

BulletMarked(line) == Len(line) > 1 /\ line[2] = "*OPTIONAL* "

\* The PR number of a bullet: the digits that follow its first "[#".
BulletNumber(line) ==
    LET k == CHOOSE i \in 1..Len(line) :
                 line[i] = "[#" /\ \A j \in 1..(i - 1) : line[j] # "[#"
        e == CHOOSE i \in (k + 1)..Len(line) :
                 ~IsDigit(line[i]) /\ \A j \in (k + 1)..(i - 1) : IsDigit(line[j])
    IN  AtoiValue(SubSeq(line, k + 1, e - 1))

\* The bullets under the heading of the given title, in order.
SectionBullets(text, title) ==
    LET lines == TextLines(text)
        h == CHOOSE i \in 1..Len(lines) : lines[i] = <<"### ", title>>
        InSection(i) ==
            /\ i > h
            /\ \A j \in (h + 1)..i : ~IsHeading(lines[j])
        idx == {i \in 1..Len(lines) : InSection(i) /\ IsBullet(lines[i])}
        RECURSIVE Take(_)
        Take(S) == IF S = {} THEN <<>>
                   ELSE LET m == CHOOSE x \in S : \A y \in S : x <= y
                        IN  <<lines[m]>> \o Take(S \ {m})
    IN  Take(idx)

Recognised(change) == ToUpper(change.Category) \in {"ADDED", "CHANGED", "FIXED"}

\* C5: an entry with inclusion score below 25 produces no bullet; one with
\* score in [25,50) and a recognised category produces a bullet with the
\* optional marker; one with score 50 or above and a recognised category
\* produces a bullet without the marker.  Per PR number, the marked bullets
\* of the document are as many as the recognised entries with score in
\* [25,50), and the unmarked bullets as many as those with score >= 50.
C5_InclusionThresholds ==
    pc = "formatted" =>
        LET lines == TextLines(changelogText) IN
        \A n \in ResponseNumbers :
            /\ Cardinality({i \in 1..Len(lines) :
                   IsBullet(lines[i]) /\ BulletNumber(lines[i]) = n
                       /\ BulletMarked(lines[i])})
               = Cardinality({i \in 1..Len(response) :
                   response[i].PRNumber = n /\ Recognised(response[i])
                       /\ response[i].IncludeScore >= 25
                       /\ response[i].IncludeScore < 50})
            /\ Cardinality({i \in 1..Len(lines) :
                   IsBullet(lines[i]) /\ BulletNumber(lines[i]) = n
                       /\ ~BulletMarked(lines[i])})
               = Cardinality({i \in 1..Len(response) :
                   response[i].PRNumber = n /\ Recognised(response[i])
                       /\ response[i].IncludeScore >= 50})

\* An excluded entry and an optional one: the document shows one bullet,
\* which is marked.
C5_Witness ==
    /\ pc = "formatted"
    /\ Len(response) = 2
    /\ response[1].IncludeScore = 24 /\ response[1].Category = "ADDED"
    /\ response[1].PRNumber = 7
    /\ response[2].IncludeScore = 49 /\ response[2].Category = "fixed"
    /\ response[2].PRNumber = 12
    /\ \A i \in 1..Len(TextLines(changelogText)) :
           LET l == TextLines(changelogText)[i] IN
           IsBullet(l) => BulletMarked(l) /\ BulletNumber(l) = 12
    /\ \E i \in 1..Len(TextLines(changelogText)) :
           IsBullet(TextLines(changelogText)[i])
\* Whether the PR numbers of the response are pairwise distinct.
DistinctNumbers(changes) ==
    \A i, j \in 1..Len(changes) :
        changes[i].PRNumber = changes[j].PRNumber => i = j

\* The entry of the response with the given PR number.
EntryOf(changes, n) ==
    changes[CHOOSE i \in 1..Len(changes) : changes[i].PRNumber = n]

\* The place of the bullet with the given PR number among bullets.
BulletPlace(bullets, n) ==
    CHOOSE k \in 1..Len(bullets) : BulletNumber(bullets[k]) = n

\* C6: within each rendered category section, bullets appear in descending
\* order of importance score: the bullets of a section are the entries of
\* its sorted bucket, in order, no entry of the bucket is followed by one
\* with a strictly higher score, and (where PR numbers identify entries) no
\* bullet is followed in its section by a bullet of a more important entry.
C6_DescendingImportance ==
    pc = "formatted" =>
        \A c \in 1..Len(categories) :
            LET bullets == SectionBullets(changelogText, CategoryTitle(categories[c]))
                bucket == changesByCategory[categories[c]]
            IN  /\ Len(bullets) = Len(bucket)
                /\ Len(bucket) = Len(GroupByCategory(response, categories[c]))
                /\ \A i \in 1..Len(bucket) :
                       BulletNumber(bullets[i]) = bucket[i].PRNumber
                /\ \A i, j \in 1..Len(bucket) :
                       i < j => bucket[i].ImportanceScore >= bucket[j].ImportanceScore
                /\ DistinctNumbers(response) =>
                       \A i, j \in 1..Len(bullets) :
                           i < j =>
                               EntryOf(response, BulletNumber(bullets[i])).ImportanceScore
                               >= EntryOf(response, BulletNumber(bullets[j])).ImportanceScore

\* Two entries of one category arrive in ascending order of importance and
\* are rendered in descending order.
C6_Witness ==
    /\ pc = "formatted"
    /\ Len(response) = 2
    /\ response[1].Category = "fixed" /\ response[2].Category = "fixed"
    /\ response[1].IncludeScore = 50 /\ response[2].IncludeScore = 25
    /\ response[1].ImportanceScore = 10 /\ response[2].ImportanceScore = 20
    /\ response[1].PRNumber = 7 /\ response[2].PRNumber = 12
    /\ LET bullets == SectionBullets(changelogText, "Fixed") IN
       /\ Len(bullets) = 2
       /\ BulletNumber(bullets[1]) = 12
       /\ BulletNumber(bullets[2]) = 7

\* C7: ranking within a category is stable: two entries of the same
\* category with equal importance score are rendered in the relative order
\* in which the classifier returned them.
C7_StableRanking ==
    pc = "formatted" =>
        \A i, j \in 1..Len(response) :
            (/\ i < j
             /\ DistinctNumbers(response)
             /\ Recognised(response[i])
             /\ ToUpper(response[i].Category) = ToUpper(response[j].Category)
             /\ response[i].IncludeScore >= 25
             /\ response[j].IncludeScore >= 25
             /\ response[i].ImportanceScore = response[j].ImportanceScore)
            => LET bullets == SectionBullets(changelogText,
                                  CategoryTitle(ToUpper(response[i].Category)))
               IN  BulletPlace(bullets, response[i].PRNumber)
                       < BulletPlace(bullets, response[j].PRNumber)
\* The lines of a text that start with the token.
LinesStarting(text, token) ==
    SelectSeq(TextLines(text), LAMBDA line : Len(line) > 0 /\ line[1] = token)

\* C17: the rendered document has the title line "# Changelog X.Y" exactly
\* when the patch component of the release is 0, as its first line, and for
\* every release exactly one header line "## X.Y.Z - date" with the full
\* version.
C17_TitleAndHeader ==
    pc = "formatted" =>
        LET titles == LinesStarting(changelogText, "# Changelog ")
            headers == LinesStarting(changelogText, "## ")
        IN  /\ Len(titles) = IF ver.patch = 0 THEN 1 ELSE 0
            /\ ver.patch = 0 =>
                  /\ TextLines(changelogText)[1] = titles[1]
                  /\ parseVersion(Tail(titles[1]) \o <<".", "0">>)
                         = [ok |-> TRUE, v |-> ver]
            /\ Len(headers) = 1
            /\ LET header == headers[1]
                   dash == CHOOSE i \in 1..Len(header) : header[i] = " - "
               IN  /\ parseVersion(SubSeq(header, 2, dash - 1))
                          = [ok |-> TRUE, v |-> ver]
                   /\ SubSeq(header, dash + 1, Len(header)) = <<Today>>

\* A patch release rendered with a bullet: no title, the header first.
C17_Witness ==
    /\ pc = "formatted"
    /\ ver.patch # 0
    /\ Len(changesByCategory["FIXED"]) > 0
    /\ TextLines(changelogText)[1][1] = "## "

\* How many of the bullets have the PR number.
CountBullets(bullets, n) ==
    Cardinality({i \in 1..Len(bullets) : BulletNumber(bullets[i]) = n})

\* How many entries of the response have the number, a category that is
\* the given one in upper case, and an inclusion score of at least 25.
CountEntries(category, n) ==
    Cardinality({i \in 1..Len(response) :
                    /\ response[i].PRNumber = n
                    /\ ToUpper(response[i].Category) = category
                    /\ response[i].IncludeScore >= 25})

\* C18: the rendered document has exactly the three headings Added,
\* Changed, Fixed, in this order, also when a bucket is empty; under each
\* heading and for each PR number there are as many bullets as entries of
\* that number with that category (in any case) and score at least 25, so
\* such an entry is rendered once under its own heading and an entry of
\* another category nowhere.
C18_ThreeSections ==
    pc = "formatted" =>
        /\ LinesStarting(changelogText, "### ")
               = << <<"### ", "Added">>, <<"### ", "Changed">>, <<"### ", "Fixed">> >>
        /\ \A n \in ResponseNumbers :
              /\ CountBullets(SectionBullets(changelogText, "Added"), n)
                     = CountEntries("ADDED", n)
              /\ CountBullets(SectionBullets(changelogText, "Changed"), n)
                     = CountEntries("CHANGED", n)
              /\ CountBullets(SectionBullets(changelogText, "Fixed"), n)
                     = CountEntries("FIXED", n)
        /\ Len(LinesStarting(changelogText, "- "))
               = Cardinality({i \in 1..Len(response) :
                                 Recognised(response[i])
                                 /\ response[i].IncludeScore >= 25})

\* A response with an entry of category Security and one of category
\* fixed, both with score 50: one bullet, under Fixed.
C18_Witness ==
    /\ pc = "formatted"
    /\ Len(response) = 2
    /\ response[1].Category = "Security" /\ response[1].IncludeScore = 50
    /\ response[2].Category = "fixed" /\ response[2].IncludeScore = 50
    /\ Len(LinesStarting(changelogText, "- ")) = 1
    /\ Len(SectionBullets(changelogText, "Fixed")) = 1

(***************************************************************************)
(* SpecCollect: collection over every listing in bounds.                   *)
(***************************************************************************)
\* The label lists and bodies of the listed pull requests.
LabelBodies ==
    { << <<>>, <<>> >>,
      << <<"action/release-note">>, <<>> >>,
      << <<"kind/cherry-pick">>, <<"Cherry pick of ", "#", "3">> >>,
      << <<"action/release-note", "kind/cherry-pick">>,
         <<"Cherry pick of ", "#", "1", " and ", "#", "3">> >> }

ListedNumbers == {1, 2}
MergeTimes == {1, 2, 3}
CommitTimes == {2}

\* The closed pull requests a listing is drawn from: closed without merge
\* (every traversal skips these before it reads a label), with the
\* release-note label or as a cherry pick, or merged before, at or after
\* the commit time of the tag.
ListedPulls ==
    {Pull(n, TitleOf(n), AuthorOf(n), <<"action/release-note">>, <<>>, FALSE, 0) :
        n \in ListedNumbers}
    \cup
    {Pull(n, TitleOf(n), AuthorOf(n), <<"kind/cherry-pick">>,
          <<"Cherry pick of ", "#", "3">>, FALSE, 0) : n \in ListedNumbers}
    \cup
    {Pull(n, TitleOf(n), AuthorOf(n), lb[1], lb[2], TRUE, t) :
        n \in ListedNumbers, lb \in LabelBodies, t \in MergeTimes}

Listings == UNION {[1..n -> ListedPulls] : n \in 0..MaxPulls}

\* The numbers a body of the model refers to.
ReferredNumbers == {1, 3}

InitCollect ==
    /\ pc = "historical"
    /\ ver \in ReleaseVersions
    /\ fromRelease = CalculatePreviousRelease(ver)
    /\ impl = "pkg"
    /\ branch = <<>>
    /\ all \in BOOLEAN
    /\ releaseStartTime \in CommitTimes
    /\ listing \in Listings
    /\ allPRs = <<>>
    /\ prs = <<>>
    /\ warned = {}
    /\ err = FALSE
    /\ cherryPickPRs = <<>>
    /\ release = <<>>
    /\ promptText = <<>>
    /\ changelogDir = <<>>
    /\ prCache = <<>>
    /\ historicalCHANGELOGs = <<>>
    /\ fetchWarned = {}
    /\ response = <<>>
    /\ changesByCategory = <<>>
    /\ changelogText = <<>>

\* The requests of one collection that may fail: since the first failed
\* request of a tag, a commit or a page ends fetchPRs, at most one of them
\* fails (tag; page list of the first traversal; page cherry of the
\* cherry-pick traversal, which only a patch release makes; 0: none).
FailurePoints(v, pulls) ==
    {[tag |-> TRUE, list |-> 0, cherry |-> 0]}
    \cup {[tag |-> FALSE, list |-> k, cherry |-> 0] : k \in 0..Len(Pages(pulls))}
    \cup {[tag |-> FALSE, list |-> 0, cherry |-> k] :
             k \in IF v.patch # 0 THEN 1..Len(Pages(pulls)) ELSE {}}

\* The sets of numbers whose lookup by GetPullRequest may fail.
LookupFailures(v) == IF v.patch # 0 THEN SUBSET ReferredNumbers ELSE {{}}

\* Generate, lines 89-95: prs, err := g.fetchPRs(ctx, branch, fromRelease, ver)
FetchPRs ==
    /\ pc = "historical"
    /\ \E fail \in FailurePoints(ver, listing), getFail \in LookupFailures(ver) :
           LET r == CollectAll(all, ver, listing, releaseStartTime, fail.tag,
                               fail.list, fail.cherry, getFail)
           IN  /\ warned' = r.warned
               /\ err' = r.err
               /\ allPRs' = r.prs
               /\ cherryPickPRs' = r.cherry
               /\ IF r.err
                  THEN prs' = <<>>
                  ELSE prs' \in UniqueSorted(r.prs)
               /\ pc' = StageOutcome(r.err, "fetched")
    /\ UNCHANGED <<versionVars, formatVars, ledgerVars, generateVars, all,
                   releaseStartTime, listing>>

\* Generate, lines 97-99: prs = filterBotPRs(prs)
FilterBotPRs ==
    /\ pc = "fetched"
    /\ prs' = filterBotPRs(prs)
    /\ pc' = "filtered"
    /\ UNCHANGED <<versionVars, formatVars, ledgerVars, generateVars, all,
                   releaseStartTime, listing, allPRs, warned, err, cherryPickPRs>>

NextCollect == FetchPRs \/ FilterBotPRs

SpecCollect == InitCollect /\ [][NextCollect]_vars

\* The PR numbers of a record list.
NumbersOf(records) == {records[i].Number : i \in 1..Len(records)}

\* C2: after fetchPRs completes successfully, the returned list contains
\* each PR number exactly once, whichever of the fetch paths produced it
\* and however many times: no number occurs twice, and the numbers are
\* those the paths produced.
C2_EachNumberOnce ==
    pc = "fetched" =>
        /\ \A i, j \in 1..Len(prs) : prs[i].Number = prs[j].Number => i = j
        /\ NumbersOf(prs) = NumbersOf(allPRs)

\* The labeled path and the cherry-pick resolution both produced PR 1.
C2_Witness ==
    /\ pc = "fetched"
    /\ ~all
    /\ Len(allPRs) = 3
    /\ allPRs[1].Number = 1 /\ allPRs[2].Number = 1 /\ allPRs[3].Number = 3
    /\ Len(prs) = 2

\* C3: no record whose author is in the block-list (renovate[bot],
\* dependabot, dependabot[bot], antrea-bot) is in the record list passed to
\* prompt assembly and author enrichment, in either mode, for any version.
C3_NoBotRecords ==
    pc = "filtered" =>
        \A i \in 1..Len(prs) :
            prs[i].Author \notin
                {"renovate[bot]", "dependabot", "dependabot[bot]", "antrea-bot"}

\* A bot's record was collected in broad mode and is gone after the filter,
\* while another record stays.
C3_Witness ==
    /\ pc = "filtered"
    /\ all
    /\ \E i \in 1..Len(allPRs) : allPRs[i].Author = "dependabot[bot]"
    /\ Len(prs) = 1

\* C4: the record list produced by collection (fetchPRs, then
\* filterBotPRs) is ordered ascending by merge timestamp.
C4_AscendingMergeTime ==
    pc \in {"fetched", "filtered"} =>
        \A i \in 1..(Len(prs) - 1) : prs[i].MergedAt <= prs[i + 1].MergedAt

\* Two records were produced latest first and are returned earliest first.
C4_Witness ==
    /\ pc = "filtered"
    /\ Len(allPRs) = 2
    /\ allPRs[1].MergedAt > allPRs[2].MergedAt
    /\ Len(prs) = 2
    /\ prs[1] = allPRs[2] /\ prs[2] = allPRs[1]

\* C10: if the lookup of an original record referenced by a cherry-pick
\* record fails, the whole collection fails with an error: collection never
\* succeeds after a failed lookup.
C10_LookupFailureAborts ==
    pc \in {"fetched", "filtered"} => warned = {}

\* Whether the traversal of the listing gets to place i: no pull request
\* before it was merged before the commit time of the tag.
Reached(i) ==
    \A j \in 1..(i - 1) :
        ~(listing[j].merged /\ listing[j].mergedAt < releaseStartTime)

\* The cherry-pick records of the listing merged inside the window that the
\* traversal gets to.
CherryPicksInWindow ==
    {i \in 1..Len(listing) :
        /\ listing[i].merged
        /\ listing[i].mergedAt > releaseStartTime
        /\ HasLabel(listing[i].labels, "kind/cherry-pick")
        /\ Reached(i)}

\* The record of the original with the merge time of the cherry-pick.
ReEmitted(n, mergedAt) ==
    LET original == GetPullRequest(listing, n) IN
    [Number |-> n, Title |-> original.title, Body |-> original.body,
     Author |-> original.author, Labels |-> original.labels,
     MergedAt |-> mergedAt]

\* Every number the cherry-pick records in the window refer to is re-emitted.
AllReEmitted ==
    \A i \in CherryPicksInWindow :
        \A k \in 1..Len(FindAllRefs(listing[i].body)) :
            \E r \in 1..Len(cherryPickPRs) :
                cherryPickPRs[r] = ReEmitted(FindAllRefs(listing[i].body)[k],
                                             listing[i].mergedAt)

\* C12: after a successful collection of a patch release, for every
\* cherry-pick record merged inside the window and every number its body
\* refers to, handleCherryPicks returned a record with the original's
\* number, title, body, author and labels and the cherry-pick's merge time.
C12_CherryPickTimestamp ==
    (pc = "fetched" /\ ver.patch # 0) => AllReEmitted

\* When no lookup failed, the records are those C12 describes.
ReEmittedWithoutFailures ==
    (pc = "fetched" /\ ver.patch # 0 /\ warned = {}) => AllReEmitted

\* C13: the commit time of the previous release's tag is an exclusive lower
\* bound of the window: after a successful collection no record produced by
\* a fetch path has a merge time equal to it.
C13_ExclusiveWindowStart ==
    pc = "fetched" =>
        \A i \in 1..Len(allPRs) : allPRs[i].MergedAt # releaseStartTime

(***************************************************************************)
(* SpecLedger: fetchHistoricalCHANGELOGs over the CHANGELOG directories of *)
(* the model, with the requests that may fail.                             *)
(***************************************************************************)
\* What a historical document may record: PR 5 with one wording, PR 5 with
\* another wording (marked optional), PR 6.
HistoricalChange(number, category, description, includeScore) ==
    [PRNumber |-> number, Category |-> category, Description |-> description,
     IncludeScore |-> includeScore, ImportanceScore |-> 50,
     ReusedFromHistory |-> FALSE, Author |-> "alice"]

FixCrash == HistoricalChange(5, "FIXED", <<"Fix", " ", "crash">>, 100)
AddFlag == HistoricalChange(5, "ADDED", <<"Add", " ", "flag">>, 30)
FixLeak == HistoricalChange(6, "FIXED", <<"Fix", " ", "leak">>, 100)

FixCve == HistoricalChange(7, "Security", <<"Fix", " ", "CVE">>, 100)

DocumentChanges == {<<FixLeak>>, <<FixCrash>>, <<AddFlag, FixLeak>>}

\* What a document holds: the changes of its three sections and the
\* changes of a section "### Security" that follows them (none: the
\* document has no such section).
DocumentShapes ==
    {[changes |-> c, unlisted |-> <<>>] : c \in DocumentChanges}
    \cup {[changes |-> <<FixCrash>>, unlisted |-> <<FixCve>>]}

\* The releases whose documents the directory may hold, in directory
\* (name) order: 1.10 sorts before 1.9 by name.
DocumentReleases == <<Version(1, 10, 0), Version(1, 9, 0), Version(2, 0, 0),
                      Version(2, 1, 0)>>

ChangelogName(v) ==
    <<"CHANGELOG-">> \o Itoa(v.major) \o <<".">> \o Itoa(v.minor) \o <<".md">>

\* A section with a heading of its own, in the shape of the sections
\* formatChangelog writes.
UnlistedSection(unlisted) ==
    IF Len(unlisted) = 0 THEN <<>>
    ELSE <<"### ", unlisted[1].Category, "\n", "\n">> \o BulletLines(unlisted)
             \o <<"\n">>

\* A document as a release of the tool wrote it, followed by the section
\* "### Security" if it has one.
Document(v, shape) ==
    [name |-> ChangelogName(v),
     content |-> formatChangelog(v, [c \in {"ADDED", "CHANGED", "FIXED"} |->
                                        GroupByCategory(shape.changes, c)])
                 \o UnlistedSection(shape.unlisted),
     release |-> v, changes |-> shape.changes, unlisted |-> shape.unlisted]

\* Directory entries that are not historical documents.
OtherFiles ==
    <<[name |-> <<"CHANGELOG-", "n", "e", "x", "t", ".md">>, content |-> <<>>,
       release |-> Version(0, 0, 0), changes |-> <<>>, unlisted |-> <<>>],
      [name |-> <<"README", ".md">>, content |-> <<>>,
       release |-> Version(0, 0, 0), changes |-> <<>>, unlisted |-> <<>>]>>

\* The directories: some of the documents, each with some changes, with or
\* without the other files.
RECURSIVE DocumentLists(_)
DocumentLists(i) ==
    IF i > Len(DocumentReleases) THEN {<<>>}
    ELSE LET rest == DocumentLists(i + 1) IN
         rest \cup {<<Document(DocumentReleases[i], c)>> \o r :
                       c \in DocumentShapes, r \in rest}

Directories == {d \o o : d \in DocumentLists(1), o \in {<<>>, OtherFiles}}

InitLedger ==
    /\ pc = "resolved"
    /\ ver = Version(2, 5, 0)
    /\ fromRelease = CalculatePreviousRelease(ver)
    /\ impl = "pkg"
    /\ branch = <<>>
    /\ changelogDir \in Directories
    /\ prCache = <<>>
    /\ historicalCHANGELOGs = <<>>
    /\ fetchWarned = {}
    /\ all = FALSE
    /\ releaseStartTime = 0
    /\ listing = <<>>
    /\ allPRs = <<>>
    /\ prs = <<>>
    /\ warned = {}
    /\ err = FALSE
    /\ cherryPickPRs = <<>>
    /\ release = <<>>
    /\ promptText = <<>>
    /\ response = <<>>
    /\ changesByCategory = <<>>
    /\ changelogText = <<>>

\* The GetFileContent requests of one call that may fail: at most one
\* request of the parsing loop, or one of the including loop (0: none).
FetchFailures(changelogFiles) ==
    {[failed |-> {}, failAt |-> k] :
        k \in 0..Min(NumToInclude, Len(changelogFiles))}
    \cup {[failed |-> {k}, failAt |-> 0] : k \in 1..Len(changelogFiles)}

\* Generate's call of fetchHistoricalCHANGELOGs.  dirFail:
\* GetDirectoryContents fails.
FetchHistoricalCHANGELOGs ==
    /\ pc = "resolved"
    /\ \E dirFail \in BOOLEAN :
          IF dirFail
          THEN /\ pc' = StageOutcome(TRUE, "historical")
               /\ err' = TRUE
               /\ UNCHANGED <<prCache, historicalCHANGELOGs, fetchWarned>>
          ELSE \E changelogFiles \in SortedChangelogFiles(changelogDir) :
               \E f \in FetchFailures(changelogFiles) :
                  LET r == fetchHistoricalCHANGELOGs(changelogFiles, f.failed,
                                                     f.failAt)
                  IN  /\ pc' = StageOutcome(r.err, "historical")
                      /\ err' = r.err
                      /\ prCache' = r.prCache
                      /\ historicalCHANGELOGs' = r.text
                      /\ fetchWarned' = r.warned
    /\ UNCHANGED <<versionVars, formatVars, generateVars, changelogDir, all,
                   releaseStartTime, listing, allPRs, prs, warned, cherryPickPRs>>

NextLedger == FetchHistoricalCHANGELOGs

SpecLedger == InitLedger /\ [][NextLedger]_vars

\* The documents of the directory that record the number.
DocumentsHolding(n) ==
    {i \in 1..Len(changelogDir) :
        \E k \in 1..Len(changelogDir[i].changes) :
            changelogDir[i].changes[k].PRNumber = n}

\* The change a document records for the number.
RecordedChange(i, n) ==
    LET changes == changelogDir[i].changes IN
    changes[CHOOSE k \in 1..Len(changes) : changes[k].PRNumber = n]

\* C8: after a successful fetchHistoricalCHANGELOGs, for every PR number
\* that documents of the directory record, the ledger holds the category and
\* the description of the document with the highest version among them.
C8_HigherVersionWins ==
    pc = "historical" =>
        \A n \in {5, 6} : \A i \in DocumentsHolding(n) :
            (\A j \in DocumentsHolding(n) :
                j = i \/ GreaterThan(changelogDir[i].release,
                                     changelogDir[j].release))
            => /\ n \in DOMAIN prCache
               /\ prCache[n] = HistoricalPR(RecordedChange(i, n).Description,
                                            RecordedChange(i, n).Category)

\* C9: fetchHistoricalCHANGELOGs succeeds only if every GetFileContent
\* request succeeded: a call that logged a fetch warning for a document
\* returns an error.
C9_FetchFailureAborts ==
    pc = "historical" => fetchWarned = {}

\* Without a failed request the ledger is the one C8 describes.
LedgerWithoutFailures ==
    (pc = "historical" /\ fetchWarned = {}) => C8_HigherVersionWins

\* The numbers that documents of the directory record only under the
\* heading "### Security".
UnlistedNumbers ==
    {n \in {5, 6, 7} :
        /\ \E i \in 1..Len(changelogDir) :
              \E k \in 1..Len(changelogDir[i].unlisted) :
                 changelogDir[i].unlisted[k].PRNumber = n
        /\ DocumentsHolding(n) = {}}

\* C11: after a successful fetchHistoricalCHANGELOGs, a PR number whose
\* bullets all follow a heading "### Security" (not ADDED, CHANGED or
\* FIXED) is no key of the ledger.
C11_UnknownHeadingClears ==
    pc = "historical" => \A n \in UnlistedNumbers : n \notin DOMAIN prCache

\* The documents of the directory: the entries named after their release.
LocatedDocuments ==
    {i \in 1..Len(changelogDir) :
        changelogDir[i].name = ChangelogName(changelogDir[i].release)}

\* How many documents have a higher version than document i.
Recency(i) ==
    Cardinality({j \in LocatedDocuments :
                    GreaterThan(changelogDir[j].release, changelogDir[i].release)})

\* The text of the documents of recency r, r + 1, ... below 3, each under
\* its "=== name ===" line.
RECURSIVE ExcerptFrom(_)
ExcerptFrom(r) ==
    IF r >= 3 \/ r >= Cardinality(LocatedDocuments) THEN <<>>
    ELSE LET i == CHOOSE x \in LocatedDocuments : Recency(x) = r IN
         <<"\n", "\n", "=== ">> \o changelogDir[i].name \o <<" ===", "\n", "\n">>
         \o changelogDir[i].content \o ExcerptFrom(r + 1)

\* The excerpt is of the three most recent documents, and every number a
\* document records under ADDED, CHANGED or FIXED is a key of the ledger.
ExcerptOfThreeLedgerOfAll ==
    /\ historicalCHANGELOGs = ExcerptFrom(0)
    /\ \A n \in {5, 6} : DocumentsHolding(n) # {} => n \in DOMAIN prCache

\* C15: after a successful fetchHistoricalCHANGELOGs the style excerpt is
\* the text of the min(3, number of documents) most recent documents in
\* version-descending order, and the ledger is built from all documents: a
\* PR number recorded only by the fourth-most-recent or an older document
\* is a key of the ledger.
C15_ExcerptOfThreeLedgerOfAll ==
    pc = "historical" => ExcerptOfThreeLedgerOfAll

\* When no fetch failed, excerpt and ledger are those C15 describes.
ExcerptAndLedgerWithoutFailures ==
    (pc = "historical" /\ fetchWarned = {}) => ExcerptOfThreeLedgerOfAll

(***************************************************************************)
(* SpecGenerate: Generate from the release text to the rendered document,  *)
(* over a few directories, listings and classifier responses.              *)
(***************************************************************************)
\* The release texts a run is asked for; the last one is no version.
GenerateReleases ==
    {<<"2", ".", "5", ".", "0">>, <<"2", ".", "5", ".", "1">>, <<"2", ".", "5">>}

GenerateDirectories ==
    {<<>>,
     <<Document(Version(2, 0, 0), [changes |-> <<FixCrash>>, unlisted |-> <<>>]),
       Document(Version(2, 1, 0), [changes |-> <<AddFlag, FixLeak>>,
                                   unlisted |-> <<>>])>>}

\* The closed pull requests of the branch: #5 and the bot's #2 carry the
\* release-note label, #4 is a cherry-pick of #1.
GeneratePulls ==
    {Pull(5, TitleOf(5), AuthorOf(5), <<"action/release-note", "area/agent">>,
          <<"Fixes a crash">>, TRUE, 3),
     Pull(2, TitleOf(2), AuthorOf(2), <<"action/release-note">>, <<>>, TRUE, 4),
     Pull(4, TitleOf(4), AuthorOf(4), <<"kind/cherry-pick">>,
          <<"Cherry pick of ", "#", "1">>, TRUE, 3)}

GenerateListings ==
    {<<>>} \cup {<<p>> : p \in GeneratePulls}
    \cup {pq \in {<<p, q>> : p \in GeneratePulls, q \in GeneratePulls} :
             pq[1] # pq[2]}

\* What the classifier may answer: Author is not part of the answer
\* (json:"-").
Classified(number, category, includeScore) ==
    [PRNumber |-> number, Category |-> category,
     Description |-> <<"Fix", " ", "crash">>, IncludeScore |-> includeScore,
     ImportanceScore |-> 50, ReusedFromHistory |-> FALSE, Author |-> ""]

GenerateResponses ==
    {<<>>,
     <<Classified(5, "FIXED", 100)>>,
     <<Classified(5, "Added", 30), Classified(1, "FIXED", 100)>>,
     <<Classified(5, "FIXED", 100), Classified(1, "FIXED", 10)>>,
     <<Classified(5, "FIXED", 100), Classified(5, "Added", 100)>>,
     <<Classified(9, "Security", 100), Classified(5, "fixed", 10)>>}

InitGenerate ==
    /\ pc = "start"
    /\ release \in GenerateReleases
    /\ changelogDir \in GenerateDirectories
    /\ listing \in GenerateListings
    /\ all \in BOOLEAN
    /\ releaseStartTime = 2
    /\ ver = Version(0, 0, 0)
    /\ fromRelease = <<>>
    /\ impl = "pkg"
    /\ branch = <<>>
    /\ prCache = <<>>
    /\ historicalCHANGELOGs = <<>>
    /\ fetchWarned = {}
    /\ allPRs = <<>>
    /\ prs = <<>>
    /\ warned = {}
    /\ err = FALSE
    /\ cherryPickPRs = <<>>
    /\ promptText = <<>>
    /\ response = <<>>
    /\ changesByCategory = <<>>
    /\ changelogText = <<>>

\* Generate, lines 65-77: version.Parse(g.release), the previous release
\* and the branch.
ParseRelease ==
    /\ pc = "start"
    /\ LET parsed == Parse(release) IN
       /\ err' = ~parsed.ok
       /\ pc' = StageOutcome(~parsed.ok, "resolved")
       /\ ver' = parsed.v
       /\ fromRelease' = IF parsed.ok THEN CalculatePreviousRelease(parsed.v)
                         ELSE <<>>
       /\ branch' = IF parsed.ok THEN determineBranch(parsed.v) ELSE <<>>
    /\ UNCHANGED <<impl, formatVars, ledgerVars, generateVars, all,
                   releaseStartTime, listing, allPRs, prs, warned, cherryPickPRs>>

\* Generate, lines 101-108: promptText := g.buildPrompt(...)
BuildPrompt ==
    /\ pc = "filtered"
    /\ promptText' = buildPrompt(historicalCHANGELOGs, prs, prCache)
    /\ pc' = "prompted"
    /\ UNCHANGED <<versionVars, formatVars, ledgerVars, collectVars, release>>

\* Generate, lines 110-117: g.modelCaller.Call(...), which fails or answers.
CallModel ==
    /\ pc = "prompted"
    /\ \/ /\ err' = TRUE
          /\ pc' = StageOutcome(TRUE, "called")
          /\ UNCHANGED response
       \/ /\ err' = FALSE
          /\ pc' = StageOutcome(FALSE, "called")
          /\ response' \in GenerateResponses
    /\ UNCHANGED <<versionVars, changesByCategory, changelogText, ledgerVars,
                   generateVars, all, releaseStartTime, listing, allPRs, prs,
                   warned, cherryPickPRs>>

\* Generate, line 121: g.enrichWithAuthors(modelResponse, prs)
EnrichWithAuthors ==
    /\ pc = "called"
    /\ response' = enrichWithAuthors(response, prs)
    /\ pc' = "classified"
    /\ UNCHANGED <<versionVars, changesByCategory, changelogText, ledgerVars,
                   collectVars, generateVars>>

NextGenerate ==
    \/ ParseRelease
    \/ FetchHistoricalCHANGELOGs
    \/ FetchPRs
    \/ FilterBotPRs
    \/ BuildPrompt
    \/ CallModel
    \/ EnrichWithAuthors
    \/ FormatChangelog

SpecGenerate == InitGenerate /\ [][NextGenerate]_vars

\* C14: a run is all-or-nothing: when a stage of Generate (version parsing,
\* fetchHistoricalCHANGELOGs, fetchPRs, the classifier call) returned an
\* error, the run has failed and the changelog text is empty; the changelog
\* text is not empty only when the run went through every stage without an
\* error.
C14_AllOrNothing ==
    /\ err => (pc = "failed" /\ changelogText = <<>>)
    /\ pc = "failed" => (err /\ changelogText = <<>>)
    /\ changelogText # <<>> => (pc = "formatted" /\ ~err)

\* A run whose classifier call failed after the ledger, the collection and
\* the prompt were made.
C14_Witness ==
    /\ pc = "failed"
    /\ promptText # <<>>
    /\ changelogText = <<>>

(***************************************************************************)
(* Reading a prompt back: its blocks and their historical entries.         *)
(***************************************************************************)
\* The places of the prompt where a block starts.
BlockStarts == {i \in 1..Len(promptText) : promptText[i] = "## PR #"}

\* The k-th block start, counting from 1.
BlockStart(k) ==
    CHOOSE i \in BlockStarts : Cardinality({j \in BlockStarts : j < i}) = k - 1

\* The k-th block: from its start to the token before the next start.
PromptBlockAt(k) ==
    SubSeq(promptText, BlockStart(k),
           IF k = Cardinality(BlockStarts) THEN Len(promptText)
           ELSE BlockStart(k + 1) - 1)

\* The tokens of a text after place i up to the end of the line.
RestOfLine(text, i) ==
    SubSeq(text, i + 1,
           (CHOOSE e \in i..Len(text) :
               /\ \A j \in (i + 1)..e : text[j] # "\n"
               /\ (e = Len(text) \/ text[e + 1] = "\n")))

\* The place of the first token t of a text, 0 if there is none.
IndexOf(text, t) ==
    IF \E i \in 1..Len(text) : text[i] = t
    THEN CHOOSE i \in 1..Len(text) :
             text[i] = t /\ \A j \in 1..(i - 1) : text[j] # t
    ELSE 0

BlockNumber(block) == AtoiValue(RestOfLine(block, 1))

HasDirective(block) == IndexOf(block, "**HISTORICAL ENTRY (MUST REUSE):**") > 0

DirectiveCategory(block) == RestOfLine(block, IndexOf(block, "- Category: "))

DirectiveDescription(block) ==
    RestOfLine(block, IndexOf(block, "- Description: "))

\* C16: the prompt has one block per collected record, in the order of the
\* record list; a block has the must-reuse entry exactly when the record's
\* number is a key of the ledger, and then the entry gives the ledger's
\* category and description for that number unchanged; the prompt is a
\* function of the excerpt, the record list and the ledger.
C16_PromptBlocks ==
    pc \in {"prompted", "called", "classified", "formatted"} =>
        /\ Cardinality(BlockStarts) = Len(prs)
        /\ \A k \in 1..Len(prs) :
              LET block == PromptBlockAt(k) IN
              /\ BlockNumber(block) = prs[k].Number
              /\ HasDirective(block) <=> prs[k].Number \in DOMAIN prCache
              /\ HasDirective(block) =>
                    /\ DirectiveCategory(block) = <<prCache[prs[k].Number].Category>>
                    /\ DirectiveDescription(block)
                           = prCache[prs[k].Number].Description
        /\ promptText = buildPrompt(historicalCHANGELOGs, prs, prCache)

\* A prompt of two records: #5, which the ledger holds as ADDED, and #1,
\* which it does not hold.
C16_Witness ==
    /\ pc = "prompted"
    /\ Len(prs) = 2
    /\ \E k \in 1..2 : prs[k].Number = 5
    /\ \E k \in 1..2 : prs[k].Number = 1
    /\ 5 \in DOMAIN prCache /\ prCache[5].Category = "ADDED"
    /\ 1 \notin DOMAIN prCache

\* The fields of a classifier entry other than the author.
SameButAuthor(a, b) ==
    /\ a.PRNumber = b.PRNumber
    /\ a.Category = b.Category
    /\ a.Description = b.Description
    /\ a.IncludeScore = b.IncludeScore
    /\ a.ImportanceScore = b.ImportanceScore
    /\ a.ReusedFromHistory = b.ReusedFromHistory

\* C19: enrichWithAuthors gives each entry the author of the collected
\* record with the entry's PR number and leaves the author empty when there
\* is no such record; it changes no other field, keeps the entries and their
\* order, and leaves the record list as it is.
C19_EnrichFrame ==
    [][(pc = "called" /\ pc' = "classified") =>
          /\ prs' = prs
          /\ Len(response') = Len(response)
          /\ \A i \in 1..Len(response) :
                /\ SameButAuthor(response'[i], response[i])
                /\ \A k \in 1..Len(prs) :
                      prs[k].Number = response[i].PRNumber
                          => response'[i].Author = prs[k].Author
                /\ (\A k \in 1..Len(prs) : prs[k].Number # response[i].PRNumber)
                          => response'[i].Author = ""]_vars

\* After the enrichment: the entry of #9, of which there is no record, has
\* no author, and the entry of #5 has the author of the record of #5.
C19_Witness ==
    /\ pc = "classified"
    /\ Len(response) = 2
    /\ response[1].PRNumber = 9 /\ response[1].Author = ""
    /\ response[2].PRNumber = 5 /\ response[2].Author = "bob"
    /\ \E k \in 1..Len(prs) : prs[k].Number = 5

\* The handle that follows the first "[@" of a line: the tokens up to the
\* closing token.
HandleOf(line, closing) ==
    LET k == IndexOf(line, "[@")
        e == CHOOSE i \in (k + 1)..Len(line) :
                 line[i] = closing /\ \A j \in (k + 1)..(i - 1) : line[j] # closing
    IN  SubSeq(line, k + 1, e - 1)

\* The handles of the author reference list, in the order of the document.
ReferenceHandles ==
    LET links == LinesStarting(changelogText, "[@") IN
    [i \in 1..Len(links) |-> HandleOf(links[i], "]: ")]

\* The handles of the bullets of the document.
BulletHandles ==
    LET bullets == LinesStarting(changelogText, "- ") IN
    {HandleOf(bullets[i], "]") : i \in 1..Len(bullets)}

\* C20: the author reference list at the end of the rendered document holds
\* exactly the handles of the rendered bullets, which are the authors of the
\* entries with a recognised category and score at least 25, each once, in
\* ascending order of sort.Strings; the author of a dropped entry is in the
\* list only if a rendered entry has the same author.
C20_AuthorReferences ==
    pc = "formatted" =>
        LET handles == ReferenceHandles IN
        /\ {handles[i] : i \in 1..Len(handles)} = BulletHandles
        /\ BulletHandles
               = {Str(response[i].Author) :
                     i \in {j \in 1..Len(response) :
                               Recognised(response[j])
                               /\ response[j].IncludeScore >= 25}}
        /\ \A i, j \in 1..Len(handles) :
              i < j => AuthorRank(IF handles[i] = <<>> THEN "" ELSE handles[i][1])
                           < AuthorRank(IF handles[j] = <<>> THEN "" ELSE handles[j][1])

\* Bob's entry is rendered before alice's, and the list names alice first.
C20_Witness ==
    /\ pc = "formatted"
    /\ Len(response) = 2
    /\ response[1].Author = "bob" /\ response[1].Category = "Added"
    /\ response[2].Author = "alice" /\ response[2].Category = "FIXED"
    /\ ReferenceHandles = << <<"alice">>, <<"bob">> >>

\* Alice's entry was dropped for its score: the list names bob only.
DroppedAuthorNotListed ==
    /\ pc = "formatted"
    /\ Len(response) = 2
    /\ response[2].Author = "alice" /\ response[2].IncludeScore = 10
    /\ ReferenceHandles = << <<"bob">> >>

(***************************************************************************)
(* SpecRoundTrip: a response rendered by formatChangelog and the document  *)
(* parsed by parseCHANGELOG into an empty ledger.                          *)
(***************************************************************************)
\* The descriptions of the classifier's entries: a sentence, a sentence
\* with its period, a sentence after a space, a sentence that starts with
\* the optional marker.
RoundTripDescriptions ==
    {<<"Fix", " ", "crash">>, <<"Fix", " ", "crash", ".">>,
     <<" ", "Fix">>, <<"*OPTIONAL* ", "Fix">>}

RoundTripEntries ==
    {[PRNumber |-> n, Category |-> c, Description |-> d,
      IncludeScore |-> sc, ImportanceScore |-> 50, ReusedFromHistory |-> FALSE,
      Author |-> "alice"] :
        n \in ResponseNumbers, c \in {"ADDED", "fixed"}, sc \in {24, 30, 100},
        d \in RoundTripDescriptions}

RoundTripResponses == UNION {[1..n -> RoundTripEntries] : n \in 0..MaxChanges}

InitRoundTrip ==
    /\ pc = "classified"
    /\ ver = Version(2, 5, 0)
    /\ response \in RoundTripResponses
    /\ changesByCategory = <<>>
    /\ changelogText = <<>>
    /\ fromRelease = <<>>
    /\ impl = "none"
    /\ branch = <<>>
    /\ all = FALSE
    /\ releaseStartTime = 0
    /\ listing = <<>>
    /\ allPRs = <<>>
    /\ prs = <<>>
    /\ warned = {}
    /\ err = FALSE
    /\ cherryPickPRs = <<>>
    /\ release = <<>>
    /\ promptText = <<>>
    /\ changelogDir = <<>>
    /\ prCache = <<>>
    /\ historicalCHANGELOGs = <<>>
    /\ fetchWarned = {}

\* fetchHistoricalCHANGELOGs, line 194, on one document:
\* g.parseCHANGELOG(content, prCache) with an empty prCache.
ParseRendered ==
    /\ pc = "formatted"
    /\ prCache' = parseCHANGELOG(changelogText, <<>>)
    /\ pc' = "reparsed"
    /\ UNCHANGED <<versionVars, formatVars, collectVars, generateVars,
                   changelogDir, historicalCHANGELOGs, fetchWarned>>

NextRoundTrip == FormatChangelog \/ ParseRendered

SpecRoundTrip == InitRoundTrip /\ [][NextRoundTrip]_vars

\* The ledger of the rendered entries: per rendered PR number the category
\* of its section and the description of the entry.
RenderedLedgerIs(cache) ==
    /\ DOMAIN cache
           = {response[i].PRNumber :
                 i \in {j \in 1..Len(response) :
                           Recognised(response[j])
                           /\ response[j].IncludeScore >= 25}}
    /\ \A n \in DOMAIN cache :
          /\ cache[n].Category = ToUpper(EntryOf(response, n).Category)
          /\ cache[n].Description = EntryOf(response, n).Description

\* A description as the classifier is asked to write it: it does not start
\* with white space or with the optional marker.
PlainDescriptions ==
    \A i \in 1..Len(response) :
        \/ Len(response[i].Description) = 0
        \/ response[i].Description[1] \notin WhiteSpace \cup {"*OPTIONAL* "}

\* C21: for entries with distinct PR numbers, parsing the rendered
\* document into an empty ledger gives the rendered PR numbers as keys, each
\* with the category it was rendered under and its original description.
C21_RoundTrip ==
    (pc = "reparsed" /\ DistinctNumbers(response)) => RenderedLedgerIs(prCache)

\* The round trip of entries with distinct PR numbers whose descriptions
\* do not start with white space or with the optional marker.
RoundTripOfPlainDescriptions ==
    (pc = "reparsed" /\ DistinctNumbers(response) /\ PlainDescriptions)
        => RenderedLedgerIs(prCache)

\* Two entries were rendered, one with the optional marker and one whose
\* description ends with a period, and were parsed back.
RoundTripReached ==
    /\ pc = "reparsed"
    /\ Len(response) = 2
    /\ response[1].PRNumber = 7 /\ response[1].IncludeScore = 30
    /\ response[1].Description = <<"Fix", " ", "crash">>
    /\ response[2].PRNumber = 12 /\ response[2].IncludeScore = 100
    /\ response[2].Description = <<"Fix", " ", "crash", ".">>
    /\ DOMAIN prCache = {7, 12}

ReorderedInDocument ==
    /\ pc = "formatted"
    /\ Len(response) = 2
    /\ Len(changesByCategory["ADDED"]) = 2
    /\ changesByCategory["ADDED"][1] = response[2]
    /\ response[1] # response[2]

\* The branch name read back: the two numbers after "release-".
BranchNumbers(b) ==
    LET parts == Split(Tail(b), ".") IN
    IF Len(b) > 0 /\ b[1] = "release-" /\ Len(parts) = 2
          /\ AtoiOk(parts[1]) /\ AtoiOk(parts[2])
    THEN <<AtoiValue(parts[1]), AtoiValue(parts[2])>>
    ELSE <<>>

\* C23: determineBranch gives "main" exactly for patch 0 and otherwise
\* "release-<major>.<minor>": the name depends on nothing but the version,
\* and versions of one minor line with non-zero patch have the same branch.
C23_DetermineBranch ==
    pc = "branched" =>
        /\ (branch = <<"main">>) <=> (ver.patch = 0)
        /\ ver.patch # 0 => BranchNumbers(branch) = <<ver.major, ver.minor>>
        /\ \A p \in 1..MaxComponent :
              ver.patch # 0 =>
                  determineBranch(Version(ver.major, ver.minor, p)) = branch

\* The branch of a patch release of a minor line with two digits.
C23_Witness ==
    /\ pc = "branched"
    /\ ver = Version(2, 10, 3)
    /\ branch = <<"release-", "2", ".", "1", "0">>

\* The branch of a release with patch 0.
MainBranchReached ==
    /\ pc = "branched"
    /\ ver = Version(2, 10, 0)
    /\ branch = <<"main">>

(***************************************************************************)
(* SpecTraverse: fetchPRs over listings of more than one page, where a     *)
(* record merged before the window may come before records merged in it.   *)
(***************************************************************************)
\* The closed pull requests at place n of a listing: number n, closed
\* without merge or merged before, at or after the commit time of the tag,
\* with the release-note label, without label, or a cherry pick of the
\* pull request 10 + n of another branch.
TraversePulls(n) ==
    {Pull(n, TitleOf(n), AuthorOf(n), <<"action/release-note">>, <<>>, FALSE, 0)}
    \cup
    {Pull(n, TitleOf(n), AuthorOf(n), lb[1], lb[2], TRUE, t) :
        lb \in { << <<"action/release-note">>, <<>> >>,
                 << <<>>, <<>> >>,
                 << <<"kind/cherry-pick">>,
                    <<"Cherry pick of ", "#">> \o Itoa(10 + n) >> },
        t \in MergeTimes}

TraverseListings ==
    {l \in [1..(MaxPulls + 1) -> UNION {TraversePulls(n) : n \in 1..(MaxPulls + 1)}] :
        \A n \in 1..(MaxPulls + 1) : l[n].number = n}

InitTraverse ==
    /\ pc = "historical"
    /\ ver \in ReleaseVersions
    /\ fromRelease = CalculatePreviousRelease(ver)
    /\ impl = "pkg"
    /\ branch = determineBranch(ver)
    /\ all \in BOOLEAN
    /\ releaseStartTime \in CommitTimes
    /\ listing \in TraverseListings
    /\ allPRs = <<>>
    /\ prs = <<>>
    /\ warned = {}
    /\ err = FALSE
    /\ cherryPickPRs = <<>>
    /\ release = <<>>
    /\ promptText = <<>>
    /\ changelogDir = <<>>
    /\ prCache = <<>>
    /\ historicalCHANGELOGs = <<>>
    /\ fetchWarned = {}
    /\ response = <<>>
    /\ changesByCategory = <<>>
    /\ changelogText = <<>>

SpecTraverse == InitTraverse /\ [][NextCollect]_vars

\* The place of the first merged record of the listing that was merged
\* before since; the length of the listing plus one if there is none.
StopIndex(pulls, since) ==
    LET older == {i \in 1..Len(pulls) :
                     pulls[i].merged /\ pulls[i].mergedAt < since}
    IN  IF older = {} THEN Len(pulls) + 1
        ELSE CHOOSE i \in older : \A j \in older : i <= j

\* The page of the listing that holds place i.
PageOf(i) == (i + PageSize - 1) \div PageSize

\* The records of the first traversal: allPRs without the cherry picks.
ListPart == SubSeq(allPRs, 1, Len(allPRs) - Len(cherryPickPRs))

\* The first traversal of fetchPRs over pulls, the request of page failAt
\* failing.
FirstTraversal(pulls, failAt) ==
    IF all THEN fetchAllPRs(pulls, releaseStartTime, failAt)
    ELSE fetchPRsWithLabel(pulls, releaseStartTime, "action/release-note", failAt)

\* C24: in each traversal the first merged record that was merged before
\* the window start ends the traversal: no record at a later place is
\* returned, what the traversal returns is what the records before that
\* place give, and no later page is requested, so that a failure of such a
\* request changes nothing.
C24_StopAtFirstOlder ==
    (pc = "fetched" /\ StopIndex(listing, releaseStartTime) <= Len(listing)) =>
        LET stop == StopIndex(listing, releaseStartTime)
            before == SubSeq(listing, 1, stop - 1)
        IN  /\ \A i \in 1..Len(ListPart) : ListPart[i].Number < stop
            /\ \A i \in 1..Len(cherryPickPRs) : cherryPickPRs[i].Number - 10 < stop
            /\ ListPart = FirstTraversal(before, 0).prs
            /\ ver.patch # 0 =>
                   cherryPickPRs
                       = CherryLoop(listing, Pages(before), 1, releaseStartTime,
                                    0, warned, <<>>, {}).prs
            /\ \A k \in (PageOf(stop) + 1)..Len(Pages(listing)) :
                  /\ FirstTraversal(listing, k) = FirstTraversal(listing, 0)
                  /\ handleCherryPicks(listing, releaseStartTime, k, warned)
                         = handleCherryPicks(listing, releaseStartTime, 0, warned)

\* The second record of the first page was merged before the window: the
\* first record was collected, the record of the second page, merged in
\* the window and labelled, was not.
C24_Witness ==
    /\ pc = "fetched"
    /\ ~all /\ ver.patch # 0
    /\ StopIndex(listing, releaseStartTime) = 2
    /\ Len(Pages(listing)) = 2
    /\ listing[1].merged /\ HasLabel(listing[1].labels, "action/release-note")
    /\ listing[3].merged /\ listing[3].mergedAt = 3
    /\ HasLabel(listing[3].labels, "action/release-note")
    /\ Len(allPRs) = 1 /\ allPRs[1].Number = 1

\* The first record of the first page was merged before the window: the
\* second record of the page, a cherry pick merged in the window, was not
\* resolved.
LaterRecordOfPageNotResolved ==
    /\ pc = "fetched"
    /\ ver.patch # 0
    /\ StopIndex(listing, releaseStartTime) = 1
    /\ listing[2].merged /\ listing[2].mergedAt = 3
    /\ HasLabel(listing[2].labels, "kind/cherry-pick")
    /\ allPRs = <<>>

\* Whether the record comes from the list traversal: it is the record of a
\* merged pull request of the listing, with that pull request's own merge
\* time, that the mode collects.
FromListTraversal(pr) ==
    \E j \in 1..Len(listing) :
        /\ listing[j].merged
        /\ pr = PRInfo(listing[j], listing[j].mergedAt)
        /\ IF all THEN ~HasLabel(listing[j].labels, "kind/cherry-pick")
           ELSE HasLabel(listing[j].labels, "action/release-note")

\* C25: for a release with patch 0 there is no cherry-pick resolution: no
\* resolved record and no lookup, every collected record is a record of
\* the list traversal, and nothing depends on the requests that
\* handleCherryPicks would make.
C25_NoCherryPicksForPatchZero ==
    (pc \in {"fetched", "filtered"} /\ ver.patch = 0) =>
        /\ cherryPickPRs = <<>>
        /\ warned = {}
        /\ \A i \in 1..Len(allPRs) : FromListTraversal(allPRs[i])
        /\ \A i \in 1..Len(prs) : FromListTraversal(prs[i])
        /\ \A k \in 1..Len(Pages(listing)), failed \in SUBSET {11, 12} :
              CollectAll(all, ver, listing, releaseStartTime, FALSE, 0, k, failed)
                  = CollectAll(all, ver, listing, releaseStartTime, FALSE, 0, 0, {})

\* A release with patch 0 whose listing starts with a cherry pick merged in
\* the window, followed by a labelled record: one record was collected.
C25_Witness ==
    /\ pc = "fetched"
    /\ ver.patch = 0 /\ ~all
    /\ listing[1].merged /\ listing[1].mergedAt = 3
    /\ HasLabel(listing[1].labels, "kind/cherry-pick")
    /\ listing[2].merged /\ listing[2].mergedAt = 3
    /\ HasLabel(listing[2].labels, "action/release-note")
    /\ Len(prs) >= 1 /\ prs[1].Number = 2

\* For a patch release the cherry pick of the same listing was resolved.
ResolvedForPatchRelease ==
    /\ pc = "fetched"
    /\ ver.patch # 0
    /\ listing[1].merged /\ listing[1].mergedAt = 3
    /\ HasLabel(listing[1].labels, "kind/cherry-pick")
    /\ Len(cherryPickPRs) = 1 /\ cherryPickPRs[1].Number = 11

\* Whether the mode's traversal keeps a record with these labels.
KeptByMode(labels) ==
    IF all THEN ~HasLabel(labels, "kind/cherry-pick")
    ELSE HasLabel(labels, "action/release-note")

\* C26: fetchAllPRs returns no record with the cherry-pick label and
\* fetchPRsWithLabel only records with the release-note label; a merged
\* record of the window that the traversal reaches and the mode keeps is
\* returned with all its labels.
C26_LabelFilters ==
    pc = "fetched" =>
        /\ \A i \in 1..Len(ListPart) : KeptByMode(ListPart[i].Labels)
        /\ \A j \in 1..Len(listing) :
              (/\ listing[j].merged
               /\ listing[j].mergedAt >= releaseStartTime
               /\ Reached(j)
               /\ KeptByMode(listing[j].labels))
                  => \E i \in 1..Len(ListPart) :
                        /\ ListPart[i].Number = listing[j].number
                        /\ ListPart[i].Labels = listing[j].labels

\* Narrow mode returned a record with both labels; the listing also has a
\* record without label, which was not returned.
C26_Witness ==
    /\ pc = "fetched"
    /\ ~all /\ ver.patch = 0
    /\ Len(listing) = 2
    /\ listing[1].number = 1 /\ listing[1].merged /\ listing[1].mergedAt = 3
    /\ listing[1].labels = <<"action/release-note", "kind/cherry-pick">>
    /\ listing[2].number = 2 /\ listing[2].merged /\ listing[2].mergedAt = 3
    /\ listing[2].labels = <<>>
    /\ Len(allPRs) = 1
    /\ allPRs[1].Labels = <<"action/release-note", "kind/cherry-pick">>

\* Broad mode over the same listing returned the record without label and
\* not the cherry pick.
BroadModeSkippedCherryPick ==
    /\ pc = "fetched"
    /\ all /\ ver.patch = 0
    /\ Len(listing) = 2
    /\ listing[1].number = 1 /\ listing[1].merged /\ listing[1].mergedAt = 3
    /\ listing[1].labels = <<"action/release-note", "kind/cherry-pick">>
    /\ listing[2].number = 2 /\ listing[2].merged /\ listing[2].mergedAt = 3
    /\ listing[2].labels = <<>>
    /\ Len(allPRs) = 1 /\ allPRs[1].Number = 2

\* The pull requests of the listing have different numbers.
DistinctListed ==
    \A i, j \in 1..Len(listing) : listing[i].number = listing[j].number => i = j

\* The records after place j that the mode's traversal has to return.
ReturnedAfter(j) ==
    \A k \in (j + 1)..Len(listing) :
        (/\ listing[k].merged
         /\ listing[k].mergedAt >= releaseStartTime
         /\ Reached(k)
         /\ KeptByMode(listing[k].labels))
            => \E i \in 1..Len(ListPart) : ListPart[i].Number = listing[k].number

\* No cherry pick is resolved when no merged record has the label.
OnlyMergedResolved ==
    (\A k \in 1..Len(listing) :
        listing[k].merged => ~HasLabel(listing[k].labels, "kind/cherry-pick"))
        => cherryPickPRs = <<>>

\* C27: a pull request closed without merge is never collected, by no fetch
\* path, and never resolved as a cherry pick, and the records after it in
\* the listing are still examined.
C27_UnmergedNeverCollected ==
    (pc = "fetched" /\ DistinctListed) =>
        /\ OnlyMergedResolved
        /\ \A j \in 1..Len(listing) :
              ~listing[j].merged =>
                  /\ \A i \in 1..Len(allPRs) : allPRs[i].Number # listing[j].number
                  /\ ReturnedAfter(j)

\* The list traversals and the traversal of handleCherryPicks skip a pull
\* request closed without merge and go on.
UnmergedSkippedByTraversals ==
    (pc = "fetched" /\ DistinctListed) =>
        /\ OnlyMergedResolved
        /\ \A j \in 1..Len(listing) :
              ~listing[j].merged =>
                  /\ \A i \in 1..Len(ListPart) : ListPart[i].Number # listing[j].number
                  /\ ReturnedAfter(j)

\* A pull request closed without merge came first in the listing and the
\* labelled record after it was collected.
CollectedAfterUnmerged ==
    /\ pc = "fetched"
    /\ Len(listing) = 2
    /\ ~listing[1].merged /\ listing[1].number = 1
    /\ HasLabel(listing[1].labels, "kind/cherry-pick")
    /\ listing[2].merged /\ listing[2].number = 2 /\ listing[2].mergedAt = 3
    /\ listing[2].labels = <<"action/release-note">>
    /\ Len(allPRs) = 1 /\ allPRs[1].Number = 2

\* The times of the last update of a pull request: a merged pull request
\* was last updated at its merge or later (a comment, a label).
UpdateTimes == 1..4

\* Sort "updated", Direction "desc": the listing is one the collaborator
\* may return in descending order of update time.
DescendingUpdateOrder(pulls) ==
    \E updatedAt \in [1..Len(pulls) -> UpdateTimes] :
        /\ \A i \in 1..Len(pulls) :
              pulls[i].merged => updatedAt[i] >= pulls[i].mergedAt
        /\ \A i, j \in 1..Len(pulls) : i < j => updatedAt[i] >= updatedAt[j]

\* The listing is in descending order of merge time (records closed
\* without merge anywhere).
DescendingMergeOrder(pulls) ==
    \A i, j \in 1..Len(pulls) :
        (i < j /\ pulls[i].merged /\ pulls[j].merged)
            => pulls[i].mergedAt >= pulls[j].mergedAt

\* Every merged record of the listing that the mode keeps and that was
\* merged at or after the window start is in the collected list.
AllOfWindowCollected ==
    \A j \in 1..Len(listing) :
        (/\ listing[j].merged
         /\ listing[j].mergedAt >= releaseStartTime
         /\ KeptByMode(listing[j].labels))
            => \E i \in 1..Len(allPRs) :
                  allPRs[i] = PRInfo(listing[j], listing[j].mergedAt)

\* C28: when the listing is in descending order of update time, every
\* merged record that the mode keeps and whose merge time is not before
\* the window start is in the collected list, on whatever page it is.
C28_CompleteForWindow ==
    (pc = "fetched" /\ DescendingUpdateOrder(listing)) => AllOfWindowCollected

\* The same for listings in descending order of merge time.
CompleteInMergeOrder ==
    (pc = "fetched" /\ DescendingMergeOrder(listing)) => AllOfWindowCollected

\* A listing in descending merge order with a record of the window on the
\* second page, which was collected.
SecondPageCollected ==
    /\ pc = "fetched"
    /\ ~all
    /\ DescendingMergeOrder(listing)
    /\ \A j \in 1..3 :
          /\ listing[j].merged /\ listing[j].mergedAt = 3
          /\ listing[j].labels = <<"action/release-note">>
    /\ Len(ListPart) = 3

(***************************************************************************)
(* SpecParse: parseCHANGELOG over documents edited by hand, where a bullet *)
(* may link several pull requests.                                         *)
(***************************************************************************)
\* [#n](https://github.com/antrea-io/antrea/pull/n)
CanonicalLink(n) ==
    <<"[#">> \o Itoa(n) \o <<"](", "https://github.com/antrea-io/antrea/pull/">>
        \o Itoa(n) \o <<")">>

RECURSIVE CanonicalLinks(_)
CanonicalLinks(numbers) ==
    IF Len(numbers) = 0 THEN <<>>
    ELSE IF Len(numbers) = 1 THEN CanonicalLink(numbers[1])
    ELSE CanonicalLink(numbers[1]) \o <<" ">> \o CanonicalLinks(Tail(numbers))

\* A bullet of a historical document that links the pull requests of the
\* given numbers.
LinkedBullet(numbers) ==
    <<"- ", "Fix", " ", "crash", ".", " ", "(">> \o CanonicalLinks(numbers)
        \o <<", ", "[@", "alice", "]", ")", "\n">>

LinkedNumberLists ==
    UNION {[1..n -> {5, 6, 12}] : n \in 1..2}

RECURSIVE LinkedBullets(_)
LinkedBullets(lists) ==
    IF Len(lists) = 0 THEN <<>>
    ELSE LinkedBullet(Head(lists)) \o LinkedBullets(Tail(lists))

\* The documents: a release header, a section "Added" or "Security" and
\* its bullets.
LinkedDocuments ==
    {<<"## ">> \o VersionString(Version(2, 4, 0)) \o <<" - ", Today, "\n", "\n",
       "### ", title, "\n", "\n">> \o LinkedBullets(lists) \o <<"\n">> :
        title \in {"Added", "Security"},
        lists \in UNION {[1..n -> LinkedNumberLists] : n \in 0..MaxChanges}}

InitParse ==
    /\ pc = "formatted"
    /\ ver = Version(2, 5, 0)
    /\ changelogText \in LinkedDocuments
    /\ response = <<>>
    /\ changesByCategory = <<>>
    /\ fromRelease = <<>>
    /\ impl = "none"
    /\ branch = <<>>
    /\ all = FALSE
    /\ releaseStartTime = 0
    /\ listing = <<>>
    /\ allPRs = <<>>
    /\ prs = <<>>
    /\ warned = {}
    /\ err = FALSE
    /\ cherryPickPRs = <<>>
    /\ release = <<>>
    /\ promptText = <<>>
    /\ changelogDir = <<>>
    /\ prCache = <<>>
    /\ historicalCHANGELOGs = <<>>
    /\ fetchWarned = {}

NextParse == ParseRendered

SpecParse == InitParse /\ [][NextParse]_vars

\* The PR numbers of the canonical links of a line.
LinkedNumbers(line) ==
    {AtoiValue(SubSeq(line, i + 1, DigitsEnd(line, i + 1))) : i \in Matches(line)}

\* The bullets of the text whose nearest heading above is one of Added,
\* Changed, Fixed.
BulletsUnderRecognisedHeading(text) ==
    LET lines == TextLines(text) IN
    {lines[i] : i \in {k \in 1..Len(lines) :
        /\ IsBullet(lines[k])
        /\ \E h \in 1..(k - 1) :
              /\ IsHeading(lines[h])
              /\ Len(lines[h]) = 2
              /\ ToUpper(lines[h][2]) \in {"ADDED", "CHANGED", "FIXED"}
              /\ \A j \in (h + 1)..k : ~IsHeading(lines[j])}}

\* C29: after parsing, every PR number of a canonical link on a bullet
\* under a recognised heading is a key of the ledger, the second and later
\* numbers of a bullet with several links included.
C29_EveryLinkedNumberIsKey ==
    pc = "reparsed" =>
        \A line \in BulletsUnderRecognisedHeading(changelogText) :
            LinkedNumbers(line) \subseteq DOMAIN prCache

\* The number of the first link of every such bullet is a key.
FirstLinkedNumberIsKey ==
    pc = "reparsed" =>
        \A line \in BulletsUnderRecognisedHeading(changelogText) :
            BulletNumber(line) \in DOMAIN prCache

\* A document with the bullets of #5 and #6 and of #12 was parsed.
LinkedDocumentParsed ==
    /\ pc = "reparsed"
    /\ {LinkedNumbers(line) :
            line \in BulletsUnderRecognisedHeading(changelogText)}
           = {{5, 6}, {12}}
    /\ DOMAIN prCache = {5, 12}

\* The order of the stages of Generate: each stage and the one that
\* follows its success.
StageOrder ==
    {<<"start", "resolved">>, <<"resolved", "historical">>,
     <<"historical", "fetched">>, <<"fetched", "filtered">>,
     <<"filtered", "prompted">>, <<"prompted", "called">>,
     <<"called", "classified">>, <<"classified", "formatted">>}

\* The stages that can return an error.
FailingStages == {"start", "resolved", "historical", "prompted"}

\* C30: the stages run in one fixed order, each at most once: every step
\* of a run is a stage that follows the success of the stage before it or
\* ends the run as failed, and nothing runs after a failure.  So the
\* classifier is called once at most, after the ledger, the collection and
\* the bot filter succeeded, and enrichment and formatting follow a
\* successful call only.
C30_StageOrder ==
    [][/\ pc' # pc
       /\ ~err
       /\ \/ <<pc, pc'>> \in StageOrder
          \/ pc \in FailingStages /\ pc' = "failed" /\ err'
       /\ <<pc, pc'>> \in StageOrder => ~err'
       /\ pc # "prompted" => (response' = response \/ pc = "called")
       /\ pc \notin {"classified"} => changelogText' = changelogText]_vars

\* A whole run: ledger, collection, prompt, classifier, enrichment and
\* document.
C30_Witness ==
    /\ pc = "formatted"
    /\ ~err
    /\ DOMAIN prCache # {}
    /\ Len(prs) > 0
    /\ Len(promptText) > 0
    /\ Len(response) > 0
    /\ Len(changelogText) > 0

=============================================================================
